---- MODULE Spec2Model ----
(***************************************************************************)
(* Substance-mixture reaction engine of GuildMaster (src/src/engine/dna.ts *)
(* and its callers).                                                       *)
(*                                                                         *)
(* Numbers.  The engine computes on JavaScript numbers.  The model         *)
(* computes on exact rationals <<n, d>> (d > 0, lowest terms); rounding of *)
(* IEEE doubles is not modelled.  All comparisons against the program's    *)
(* thresholds (EPS = 1e-9, 1e-12) are exact on these rationals.            *)
(*                                                                         *)
(* Mixtures.  A Mix is a JavaScript object Record<Substance, number>.  The *)
(* model keeps it as a function whose DOMAIN is the set of keys present.   *)
(***************************************************************************)
EXTENDS Integers, Sequences, FiniteSets, TLC

VARIABLES
    mix,        \* the mixture the Mix helpers are exercised on
    call,       \* the last Mix-helper call: its name and its arguments
    nOps,       \* number of Mix-helper calls made so far
    heap,       \* the objects runReactor's caller and runReactor hold, by reference
    rules,      \* runReactor's argument reactions (ordered)
    options,    \* runReactor's argument options (optional fields may be absent)
    ctx,        \* the ReactionContext of the run in progress
    pc,         \* position in runReactor: "idle" or "loop"
    stepI,      \* the loop variable i of runReactor
    ruleJ,      \* index of the next reaction of the inner loop
    returned,   \* what each finished run returned: the reference and its content
    given,      \* the caller's objects as they were before the first run
    body,       \* npc.chemistry.body
    stomach,    \* npc.chemistry.stomach
    lastMacro,  \* npc.chemistry.lastMacro
    tick,       \* the last tickNpcChemistry call: dt, the stomach after the reactions
                \* ran, the body before absorption, what was absorbed, and the two
                \* pools as the call left them
    nTicks,     \* number of tickNpcChemistry calls made so far
    nIngests,   \* number of ingest calls made so far
    items,      \* ItemRegistry.items: id -> ItemDefinition
    counter,    \* ItemRegistry.counter
    sample,     \* the two mixtures handed to the analyzer, as objects: the entries
                \* <<key, value>> in insertion order
    analysis,   \* what the analyzer returned for each of the two
    inventory,  \* npc.inventory: undefined, or the Map itemId -> quantity
    stockpile,  \* the Stockpile of the POI: Record<ItemId, number>
    storeCall,  \* the last stockpile or inventory helper call: its arguments, what
                \* it returned, and the two stores as they were before it
    nStoreCalls, \* number of stockpile and inventory helper calls made so far
    learnedRecipes, \* npc.learnedRecipes: undefined, or the array of learned recipes
    memoryCall, \* the last rememberRecipe or pickLearnedRecipe call: its arguments,
                \* what it returned, and the recipe list as it was before the call
    remembered, \* every (intent, process, signatures, score) rememberRecipe was
                \* called with so far
    targetPos,  \* npc.targetPos: undefined, or the place the npc is sent to
    needs,      \* npc.needs: undefined, or hunger, social and fun
    work,       \* the last actionNPCWork call: the path it took and what it saw
    nWorks,     \* actionNPCWork calls so far
    npcs,       \* the npcs working at one poi, each with its inventory, learned
                \* recipes and needs and with what its actionNPCWork call in
                \* progress holds in its locals
    craft       \* the calls made on the registry and of craftOnce, in order: the
                \* arguments, what the call computed on the way, what it returned,
                \* and the registry as it was before the call

mixVars == <<mix, call, nOps>>

reactorVars == <<heap, rules, options, ctx, pc, stepI, ruleJ, returned, given>>

npcVars == <<body, stomach, lastMacro, tick, nTicks, nIngests>>

registryVars == <<items, counter>>

craftVars == <<craft>>

engineVars == <<mixVars, reactorVars, npcVars>>

(* The variables of the item, crafting and recipe layers above the engine *)
analyzerVars == <<sample, analysis>>

storeVars == <<inventory, stockpile>>

storeCallVars == <<storeCall, nStoreCalls>>

memoryVars == <<learnedRecipes, memoryCall, remembered>>

workVars == <<targetPos, needs, work, nWorks, npcs>>

laterVars ==
    <<registryVars, craftVars, analyzerVars, storeVars, storeCallVars, memoryVars, workVars>>

vars == <<mix, call, nOps, heap, rules, options, ctx, pc, stepI, ruleJ, returned, given,
          body, stomach, lastMacro, tick, nTicks, nIngests,
          items, counter, craft, sample, analysis,
          inventory, stockpile, storeCall, nStoreCalls,
          learnedRecipes, memoryCall, remembered, targetPos, needs, work, nWorks, npcs>>

-----------------------------------------------------------------------------
(* Bounds of the model *)

MaxOps == 2

MaxRuns == 2

MaxTicks == 2

MaxIngests == 2

MaxCrafts == 2

MaxStoreCalls == 3

MaxRemembers == 2

MaxWorks == 3

-----------------------------------------------------------------------------
(* JavaScript numbers as exact rationals *)

Abs(n) == IF n < 0 THEN -n ELSE n

RECURSIVE GCD(_, _)
GCD(a, b) == IF b = 0 THEN a ELSE GCD(b, a % b)

Q(n, d) ==
    LET s == IF d < 0 THEN -1 ELSE 1
        g == GCD(Abs(n), Abs(d))
    IN  <<(s * n) \div g, (s * d) \div g>>

Zero == <<0, 1>>
One == <<1, 1>>
Half == <<1, 2>>

QNeg(a) == <<-a[1], a[2]>>

QAdd(a, b) ==
    LET g == GCD(a[2], b[2])
    IN  Q(a[1] * (b[2] \div g) + b[1] * (a[2] \div g), (a[2] \div g) * b[2])

QSub(a, b) == QAdd(a, QNeg(b))

QMul(a, b) ==
    LET g1 == GCD(Abs(a[1]), b[2])
        g2 == GCD(Abs(b[1]), a[2])
    IN  IF a[1] = 0 \/ b[1] = 0 THEN Zero
        ELSE <<(a[1] \div g1) * (b[1] \div g2), (a[2] \div g2) * (b[2] \div g1)>>

QInv(a) == IF a[1] < 0 THEN <<-a[2], -a[1]>> ELSE <<a[2], a[1]>>

QDiv(a, b) == QMul(a, QInv(b))

(* Exact three-way comparison by the Euclidean expansion: no product of a  *)
(* numerator and a denominator is formed, so 1e-9 compares without         *)
(* overflow.                                                               *)
RECURSIVE QCmp(_, _)
QCmp(a, b) ==
    LET fa == a[1] \div a[2]
        fb == b[1] \div b[2]
        ra == a[1] - fa * a[2]
        rb == b[1] - fb * b[2]
    IN  IF fa < fb THEN -1
        ELSE IF fa > fb THEN 1
        ELSE IF ra = 0 /\ rb = 0 THEN 0
        ELSE IF ra = 0 THEN -1
        ELSE IF rb = 0 THEN 1
        ELSE QCmp(<<b[2], rb>>, <<a[2], ra>>)

QLt(a, b) == QCmp(a, b) < 0
QLe(a, b) == QCmp(a, b) <= 0
QGt(a, b) == QCmp(a, b) > 0
QGe(a, b) == QCmp(a, b) >= 0

QMin(a, b) == IF QLt(b, a) THEN b ELSE a
QMax(a, b) == IF QGt(b, a) THEN b ELSE a

-----------------------------------------------------------------------------
(* Mix helpers (dna.ts) *)

EPS == <<1, 1000000000>>

NoMix == <<>>

mixGet(mx, key) == IF key \in DOMAIN mx THEN mx[key] ELSE Zero

(* Math.abs(value) < 1e-12: |n|/d < 10^-12 iff |n| * 10^12 < d, computed   *)
(* in two factors of 10^6 so that no intermediate value leaves 32 bits.    *)
Negligible(value) ==
    LET b == (value[2] + 999999) \div 1000000
    IN  Abs(value[1]) < b /\ Abs(value[1]) * 1000000 < b

MixPut(mx, key, value) ==
    [k \in (DOMAIN mx) \cup {key} |-> IF k = key THEN value ELSE mx[k]]

MixDelete(mx, key) == [k \in (DOMAIN mx) \ {key} |-> mx[k]]

(* mixAdd that stores the sum whatever it is: the delete branch is lost. *)
mixAdd_keepsAll(mx, key, value) ==
    IF Negligible(value) THEN mx
    ELSE MixPut(mx, key, QAdd(mixGet(mx, key), value))

mixAdd(mx, key, value) ==
    IF Negligible(value) THEN mx
    ELSE LET next == QAdd(mixGet(mx, key), value)
         IN  IF QLe(next, EPS) THEN MixDelete(mx, key) ELSE MixPut(mx, key, next)

(* mixScale that keeps every scaled entry: the EPS filter is lost. *)
mixScale_keepsAll(mx, scale) == [k \in DOMAIN mx |-> QMul(mx[k], scale)]

mixScale(mx, scale) ==
    LET kept == {k \in DOMAIN mx : QGt(QMul(mx[k], scale), EPS)}
    IN  [k \in kept |-> QMul(mx[k], scale)]

(* Object.entries(delta) enumerates distinct keys, and mixAdd touches only *)
(* its own key, so the fold over the entries is order-independent.         *)
(* (The loops below bind each intermediate mixture with v \in {...}: a     *)
(* bound variable holds a computed value, where an operator argument would *)
(* be recomputed at every use.)                                            *)
RECURSIVE MergeEntries(_, _, _)
MergeEntries(out, delta, ks) ==
    IF ks = {} THEN out
    ELSE LET k == CHOOSE x \in ks : TRUE
         IN  CHOOSE r \in {MergeEntries(v, delta, ks \ {k}) : v \in {mixAdd(out, k, delta[k])}} :
                TRUE

mixMerge(base, delta) == MergeEntries(base, delta, DOMAIN delta)

RECURSIVE SumOver(_, _)
SumOver(mx, ks) ==
    IF ks = {} THEN Zero
    ELSE LET k == CHOOSE x \in ks : TRUE
         IN  QAdd(mx[k], SumOver(mx, ks \ {k}))

mixTotal(mx) == SumOver(mx, DOMAIN mx)

clamp(x, lo, hi) == QMax(lo, QMin(hi, x))

-----------------------------------------------------------------------------
(* Reaction system (dna.ts) *)

(* An optional field (temperature?, catalysts?, steps?, ...) is a key that *)
(* the record may lack.                                                    *)
Has(obj, field) == field \in DOMAIN obj

Three == <<3, 1>>

(* Number.POSITIVE_INFINITY *)
Infinity == <<1, 0>>

isFinite(x) == x[2] # 0

(* The four shapes of Condition the model evaluates:                       *)
(*   "const"             a closure returning a fixed number (the default   *)
(*                       condition of the constructor is const 1)          *)
(*   "temperatureWindow" temperatureWindow(lo, hi)                         *)
(*   "catalystBoost"     catalystBoost(key, strength), strength in lo      *)
(*   "tagThreshold"      tagThreshold(key, threshold), threshold in lo,    *)
(*                       slope 10                                          *)
Always == [kind |-> "const", lo |-> One, hi |-> Zero, key |-> ""]

Const(v) == [kind |-> "const", lo |-> v, hi |-> Zero, key |-> ""]

temperatureWindow(lo, hi) == [kind |-> "temperatureWindow", lo |-> lo, hi |-> hi, key |-> ""]

catalystBoost(catalyst, strength) ==
    [kind |-> "catalystBoost", lo |-> strength, hi |-> Zero, key |-> catalyst]

tagThreshold(tag, threshold) ==
    [kind |-> "tagThreshold", lo |-> threshold, hi |-> Zero, key |-> tag]

(* 1 / (1 + Math.exp(-10 * d)) rounded to six decimals, tabulated at the   *)
(* differences val - threshold the library's rules meet when the tag is    *)
(* absent: 1 / (1 + e^6) and 1 / (1 + e^5)                                 *)
logistic10(d) ==
    CASE d = <<-3, 5>> -> <<2473, 1000000>>
      [] d = <<-1, 2>> -> <<6693, 1000000>>

ReactionRule(inputs, outputs, rate, condition) ==
    [inputs |-> inputs, outputs |-> outputs, rate |-> rate, condition |-> condition]

(* this.condition(ctx), cx = ctx as [mix, temperature?, catalysts?, tags?] by value *)
condition(rule, cx) ==
    LET c == rule.condition
    IN  CASE c.kind = "const" -> c.lo
          [] c.kind = "temperatureWindow" ->
                IF Has(cx, "temperature")
                   /\ QGe(cx.temperature, c.lo) /\ QLe(cx.temperature, c.hi)
                THEN One ELSE Zero
          [] c.kind = "catalystBoost" ->
                LET catalysts == IF Has(cx, "catalysts") THEN cx.catalysts ELSE NoMix
                    boost == mixGet(catalysts, c.key)
                IN  clamp(QAdd(One, QMul(c.lo, boost)), Zero, Three)
          [] c.kind = "tagThreshold" ->
                LET tags == IF Has(cx, "tags") THEN cx.tags ELSE <<>>
                    val == IF c.key \in DOMAIN tags THEN tags[c.key] ELSE Zero
                IN  logistic10(QSub(val, c.lo))

(* The limit loop folding with Math.max: the most abundant input caps. *)
RECURSIVE limitLoop_max(_, _, _, _)
limitLoop_max(limit, inputs, mx, ks) ==
    IF ks = {} THEN limit
    ELSE LET k == CHOOSE x \in ks : TRUE
             need == inputs[k]
             ratio == QDiv(mixGet(mx, k), need)
         IN  IF QLe(need, Zero) THEN limitLoop_max(limit, inputs, mx, ks \ {k})
             ELSE limitLoop_max(IF isFinite(limit) THEN QMax(limit, ratio) ELSE ratio,
                                inputs, mx, ks \ {k})

(* The limit loop skipping an input the mixture lacks, as it skips need <= 0. *)
RECURSIVE limitLoop_skipsAbsent(_, _, _, _)
limitLoop_skipsAbsent(limit, inputs, mx, ks) ==
    IF ks = {} THEN limit
    ELSE LET k == CHOOSE x \in ks : TRUE
             need == inputs[k]
             ratio == QDiv(mixGet(mx, k), need)
         IN  IF QLe(need, Zero) \/ k \notin DOMAIN mx
             THEN limitLoop_skipsAbsent(limit, inputs, mx, ks \ {k})
             ELSE limitLoop_skipsAbsent(IF isFinite(limit) THEN QMin(limit, ratio) ELSE ratio,
                                        inputs, mx, ks \ {k})

(* The loop of apply over Object.entries(this.inputs) that folds the limit *)
RECURSIVE limitLoop(_, _, _, _)
limitLoop(limit, inputs, mx, ks) ==
    IF ks = {} THEN limit
    ELSE LET k == CHOOSE x \in ks : TRUE
             need == inputs[k]
             ratio == QDiv(mixGet(mx, k), need)
         IN  IF QLe(need, Zero) THEN limitLoop(limit, inputs, mx, ks \ {k})
             ELSE limitLoop(IF isFinite(limit) THEN QMin(limit, ratio) ELSE ratio,
                            inputs, mx, ks \ {k})

ruleLimit(rule, mx) == limitLoop(Infinity, rule.inputs, mx, DOMAIN rule.inputs)

(* A clamp of the condition whose lower bound is 1 instead of 0. *)
ruleCond_floorOne(rule, cx) == clamp(condition(rule, cx), One, Three)

(* const cond = clamp(this.condition(ctx), 0, 3) *)
ruleCond(rule, cx) == clamp(condition(rule, cx), Zero, Three)

ruleExtent(rule, cx, dt) ==
    QMul(QMul(QMul(rule.rate, dt), ruleCond(rule, cx)), ruleLimit(rule, cx.mix))

(* The two loops of apply: mixAdd(ctx.mix, k, factor * quantity) per entry *)
RECURSIVE addLoop(_, _, _, _)
addLoop(mx, entries, factor, ks) ==
    IF ks = {} THEN mx
    ELSE LET k == CHOOSE x \in ks : TRUE
         IN  CHOOSE r \in {addLoop(v, entries, factor, ks \ {k}) :
                              v \in {mixAdd(mx, k, QMul(entries[k], factor))}} : TRUE

(* ReactionRule.apply: the mixture ctx.mix holds after the call *)
apply(rule, cx, dt) ==
    IF QLe(ruleCond(rule, cx), Zero) THEN cx.mix
    ELSE LET limit == ruleLimit(rule, cx.mix)
         IN  IF ~isFinite(limit) \/ QLe(limit, Zero) THEN cx.mix
             ELSE CHOOSE r \in
                    {IF QLe(extent, Zero) THEN cx.mix
                     ELSE CHOOSE q \in
                            {addLoop(consumed, rule.outputs, extent, DOMAIN rule.outputs) :
                                consumed \in {addLoop(cx.mix, rule.inputs, QNeg(extent),
                                                      DOMAIN rule.inputs)}} : TRUE
                        : extent \in {ruleExtent(rule, cx, dt)}} : TRUE

-----------------------------------------------------------------------------
(* Each specification below exercises one part of the engine and leaves    *)
(* the variables of the other parts in the idle values defined here.       *)

NoCall == [op |-> "none", mix |-> NoMix, key |-> "", value |-> Zero, delta |-> NoMix]

MixIdle ==
    /\ mix = NoMix
    /\ call = NoCall
    /\ nOps = 0

NoCtx == <<>>

ReactorIdle ==
    /\ heap = <<>>
    /\ rules = <<>>
    /\ options = <<>>
    /\ ctx = NoCtx
    /\ pc = "idle"
    /\ stepI = 0
    /\ ruleJ = 1
    /\ returned = <<>>
    /\ given = <<>>

NoTick == [dt |-> Zero, reacted |-> NoMix, bodyBefore |-> NoMix, absorbed |-> NoMix,
           stomach |-> NoMix, body |-> NoMix]

NoMacro == <<>>

NpcIdle ==
    /\ body = NoMix
    /\ stomach = NoMix
    /\ lastMacro = NoMacro
    /\ tick = NoTick
    /\ nTicks = 0
    /\ nIngests = 0

EngineIdle == MixIdle /\ ReactorIdle /\ NpcIdle

NoItems == <<>>

RegistryIdle ==
    /\ items = NoItems
    /\ counter = 0

CraftIdle == craft = <<>>

NoSample == <<>>

NoAnalysis == <<>>

AnalyzerIdle ==
    /\ sample = NoSample
    /\ analysis = NoAnalysis

(* An optional argument or field: None is undefined, Some(v) holds v. *)
None == <<>>

Some(v) == <<v>>

NoStore == <<>>

(* entity.inventory before ensureInventory has run: undefined *)
NoInventory == None

StoreIdle ==
    /\ inventory = NoInventory
    /\ stockpile = NoStore

NoStoreCall == [op |-> "none"]

StoreCallIdle ==
    /\ storeCall = NoStoreCall
    /\ nStoreCalls = 0

NoMemoryCall == [op |-> "none"]

MemoryIdle ==
    /\ learnedRecipes = None
    /\ memoryCall = NoMemoryCall
    /\ remembered = {}

NoWork == [op |-> "none"]

WorkIdle ==
    /\ targetPos = None
    /\ needs = None
    /\ work = NoWork
    /\ nWorks = 0
    /\ npcs = <<>>

LaterIdle ==
    /\ RegistryIdle /\ CraftIdle /\ AnalyzerIdle /\ StoreIdle /\ StoreCallIdle
    /\ MemoryIdle /\ WorkIdle

(* Input enumeration: the maps from every subset of keys to the values *)
MapsOver(keys, values) == UNION {[ks -> values] : ks \in SUBSET keys}

(* An optional field: absent, or present with one of the values *)
Optional(field, values) == {<<>>} \cup {field :> v : v \in values}

-----------------------------------------------------------------------------
(* Reactor (dna.ts runReactor), on a store of objects.  The caller's       *)
(* mixture, catalysts and tag map are objects passed by reference; the     *)
(* working mixture is the object the spread { ...itemMix } allocates.      *)

DefaultSteps == 10

WorkRefs == <<"work1", "work2", "work3", "work4">>

(* No copy: the working mixture is the caller's object itself. *)
spread_alias(h, src, fresh) == [ref |-> src, heap |-> h]

(* { ...itemMix }: a fresh object holding the entries of the source *)
spread(h, src, fresh) == [ref |-> fresh, heap |-> (fresh :> h[src]) @@ h]

optSteps(o) == IF Has(o, "steps") THEN o.steps ELSE DefaultSteps

optDt(o) == IF Has(o, "dt") THEN o.dt ELSE One

(* The fields of ctx that are not undefined *)
ctxOf(mixRef, o) ==
    [f \in {"mix"} \cup (DOMAIN o \cap {"temperature", "catalysts", "tags"}) |->
        IF f = "mix" THEN mixRef ELSE o[f]]

(* ctx with every reference replaced by the object it points to *)
deref(h, c) ==
    [f \in DOMAIN c |-> IF f \in {"mix", "catalysts", "tags"} THEN h[c[f]] ELSE c[f]]

(* runReactor whose loop variables outlive the call. *)
RunReactorStart_keepsLoopState ==
    /\ pc = "idle"
    /\ Len(returned) < MaxRuns
    /\ Has(heap, "itemMix")
    /\ LET c == spread(heap, "itemMix", WorkRefs[Len(returned) + 1])
       IN  /\ heap' = c.heap
           /\ ctx' = ctxOf(c.ref, options)
    /\ pc' = "loop"
    /\ UNCHANGED <<stepI, ruleJ, rules, options, returned, given>>
    /\ UNCHANGED mixVars
    /\ UNCHANGED npcVars
    /\ UNCHANGED laterVars

(* runReactor entered: ctx built, loop variables initialised *)
RunReactorStart ==
    /\ pc = "idle"
    /\ Len(returned) < MaxRuns
    /\ Has(heap, "itemMix")
    /\ LET c == spread(heap, "itemMix", WorkRefs[Len(returned) + 1])
       IN  /\ heap' = c.heap
           /\ ctx' = ctxOf(c.ref, options)
    /\ pc' = "loop"
    /\ stepI' = 0
    /\ ruleJ' = 1
    /\ UNCHANGED <<rules, options, returned, given>>
    /\ UNCHANGED mixVars
    /\ UNCHANGED npcVars
    /\ UNCHANGED laterVars

(* one reaction.apply(ctx, dt) of the inner loop *)
RunReactorApply ==
    /\ pc = "loop"
    /\ stepI < optSteps(options)
    /\ ruleJ <= Len(rules)
    /\ heap' = [heap EXCEPT ![ctx.mix] = apply(rules[ruleJ], deref(heap, ctx), optDt(options))]
    /\ IF ruleJ = Len(rules)
       THEN stepI' = stepI + 1 /\ ruleJ' = 1
       ELSE stepI' = stepI /\ ruleJ' = ruleJ + 1
    /\ UNCHANGED <<rules, options, ctx, pc, returned, given>>
    /\ UNCHANGED mixVars
    /\ UNCHANGED npcVars
    /\ UNCHANGED laterVars

(* the loops are over (no step left, or no reaction to apply): return ctx.mix *)
RunReactorReturn ==
    /\ pc = "loop"
    /\ stepI >= optSteps(options) \/ Len(rules) = 0
    /\ returned' = Append(returned, [ref |-> ctx.mix, mix |-> heap[ctx.mix]])
    /\ pc' = "idle"
    /\ ctx' = NoCtx
    /\ UNCHANGED <<heap, rules, options, stepI, ruleJ, given>>
    /\ UNCHANGED mixVars
    /\ UNCHANGED npcVars
    /\ UNCHANGED laterVars

ReactorNext == RunReactorStart \/ RunReactorApply \/ RunReactorReturn

Two == <<2, 1>>

Ten == <<10, 1>>

(* The caller's objects and arguments of a run *)
ReactorGiven(itemMix, catalysts, tags, opts, reactions) ==
    /\ heap = [itemMix |-> itemMix, catalysts |-> catalysts, tags |-> tags]
    /\ given = heap
    /\ options = opts
    /\ rules = reactions
    /\ ctx = NoCtx
    /\ pc = "idle"
    /\ stepI = 0
    /\ ruleJ = 1
    /\ returned = <<>>

(* ---- one rule, one step: the arguments of ReactionRule.apply ---- *)

RuleInputs == MapsOver({"A", "B"}, {Zero, One, Two})

RuleOutputs == {NoMix, [C |-> One], [A |-> One], [B |-> Half, C |-> Two]}

RuleRates == {Zero, Half, Two}

RuleConds == {<<-1, 1>>, Zero, Half, One, <<5, 1>>}

RuleDts == {<<-1, 1>>, Zero, Half, Two}

PositiveMixes == MapsOver({"A", "B"}, {Half, Two, Ten})

RuleInit ==
    /\ \E inputs \in RuleInputs, outputs \in RuleOutputs, rate \in RuleRates,
          c \in RuleConds, start \in PositiveMixes,
          dt \in Optional("dt", RuleDts) :
            ReactorGiven(start, NoMix, NoMix, [steps |-> 1] @@ dt,
                         <<ReactionRule(inputs, outputs, rate, Const(c))>>)
    /\ MixIdle
    /\ NpcIdle
    /\ LaterIdle

SpecRule == RuleInit /\ [][ReactorNext]_vars

(* The inputs a rule requires in positive quantity *)
RequiredInputs(rule) == {k \in DOMAIN rule.inputs : QGt(rule.inputs[k], Zero)}

(* rate * dt * clamp(condition, 0, 3) of the rule of this run *)
RunFactor ==
    QMul(QMul(rules[1].rate, optDt(options)), clamp(rules[1].condition.lo, Zero, Three))

(* The state right after the one apply of a run *)
Applied == pc = "loop" /\ stepI = 1

(* C1: applying a rule to a mixture of positive entries never leaves a     *)
(* required input with a quantity below zero, for every dt, every rate >= 0 *)
(* and every condition value.                                              *)
C1_RequiredInputNeverNegative ==
    \A ref \in DOMAIN heap \ {"catalysts", "tags"} :
        \A k \in RequiredInputs(rules[1]) : QGe(mixGet(heap[ref], k), Zero)

(* An apply with rate * dt * condition > 1 that used up a required input   *)
(* the mixture held: the subtraction went to or below zero.                *)
C1_Witness ==
    /\ Applied
    /\ QGt(RunFactor, One)
    /\ \E k \in RequiredInputs(rules[1]) :
            k \in DOMAIN given.itemMix /\ k \notin DOMAIN heap[ctx.mix]

(* The smallest available / required over the required inputs *)
MinRatio(rule, mx) ==
    LET ratios == {QDiv(mixGet(mx, k), rule.inputs[k]) : k \in RequiredInputs(rule)}
    IN  CHOOSE m \in ratios : \A x \in ratios : QLe(m, x)

(* C3: the limit of a rule application is the minimum over the inputs with *)
(* positive required quantity of available / required (1 for inputs        *)
(* {A:2, B:1} on {A:2, B:10}), and the extent applied is                   *)
(* rate * dt * condition * limit: each output that is not also an input    *)
(* grows by its quantity times that extent.                                *)
C3_LimitIsMinimumRatio ==
    LET rule == rules[1]
        start == given.itemMix
        extent == QMul(RunFactor, MinRatio(rule, start))
    IN  /\ RequiredInputs(rule) # {} => ruleLimit(rule, start) = MinRatio(rule, start)
        /\ rule.inputs = [A |-> Two, B |-> One] /\ start = [A |-> Two, B |-> Ten]
                => ruleLimit(rule, start) = One
        /\ Applied /\ RequiredInputs(rule) # {} /\ QGt(extent, Zero)
                => \A k \in (DOMAIN rule.outputs) \ (DOMAIN rule.inputs) :
                        mixGet(heap[ctx.mix], k)
                            = QAdd(mixGet(start, k), QMul(rule.outputs[k], extent))

(* The example of the claim, applied with effect *)
C3_Witness ==
    /\ Applied
    /\ rules[1].inputs = [A |-> Two, B |-> One]
    /\ given.itemMix = [A |-> Two, B |-> Ten]
    /\ rules[1].outputs = [C |-> One]
    /\ "C" \in DOMAIN heap[ctx.mix]

(* C5: if an input the rule requires in positive quantity is absent from   *)
(* the mixture, applying the rule changes nothing.                         *)
C5_AbsentInputNoEffect ==
    Applied /\ (\E k \in RequiredInputs(rules[1]) : k \notin DOMAIN given.itemMix)
        => heap[ctx.mix] = given.itemMix

(* An enabled rule (positive rate, dt and condition) with outputs, one     *)
(* required input present and another one absent, has been applied.        *)
C5_Witness ==
    /\ Applied
    /\ QGt(RunFactor, Zero)
    /\ rules[1].outputs # NoMix
    /\ \E k \in RequiredInputs(rules[1]) : k \notin DOMAIN given.itemMix
    /\ \E k \in RequiredInputs(rules[1]) : k \in DOMAIN given.itemMix

(* C27: in one rule application the quantity removed from each input is   *)
(* at most the quantity of it present before, and each output produced is  *)
(* its quantity times an extent that is at most the limit, also when       *)
(* rate * dt * condition is greater than 1.                                *)
C27_ExtentWithinLimit ==
    LET rule == rules[1]
        start == given.itemMix
        after == heap[ctx.mix]
    IN  Applied /\ RequiredInputs(rule) # {} =>
            /\ \A k \in (DOMAIN rule.inputs) \ (DOMAIN rule.outputs) :
                    QLe(QSub(mixGet(start, k), mixGet(after, k)), mixGet(start, k))
            /\ \A k \in (DOMAIN rule.outputs) \ (DOMAIN rule.inputs) :
                    QLe(QSub(mixGet(after, k), mixGet(start, k)),
                        QMul(rule.outputs[k], MinRatio(rule, start)))

(* ---- whole runs over ordered rule lists ---- *)

ReactorRules ==
    { ReactionRule([A |-> One], [B |-> One], One, Always),
      ReactionRule([A |-> Two, B |-> One], [C |-> One], Two, temperatureWindow(Half, One)),
      ReactionRule([B |-> One], [C |-> One], One, catalystBoost("ENZ_X", One)),
      ReactionRule([A |-> One], [C |-> Two], One, Const(<<-1, 1>>)) }

ReactorRuleLists == {<<>>} \cup {<<r>> : r \in ReactorRules}
                        \cup {<<r, q>> : r \in ReactorRules, q \in ReactorRules}

ReactorMixes == {NoMix, [A |-> One], [A |-> Two, B |-> Ten], [A |-> One, B |-> Half, C |-> One]}

ReactorInit ==
    /\ \E start \in ReactorMixes, reactions \in ReactorRuleLists,
          temperature \in Optional("temperature", {Zero, <<3, 4>>}),
          catalysts \in Optional("catalysts", {"catalysts"}),
          tags \in Optional("tags", {"tags"}),
          steps \in Optional("steps", {0, 2}),
          dt \in Optional("dt", {Half, Two}) :
            ReactorGiven(start, [ENZ_X |-> One], [heat |-> One],
                         temperature @@ catalysts @@ tags @@ steps @@ dt, reactions)
    /\ MixIdle
    /\ NpcIdle
    /\ LaterIdle

SpecReactor == ReactorInit /\ [][ReactorNext]_vars

(* The context the conditions of a run are evaluated in *)
GivenCtx == deref(given, ctxOf("itemMix", options))

AllDisabled == \A j \in DOMAIN rules : QLe(condition(rules[j], GivenCtx), Zero)

(* C4: when the condition of every rule of the run evaluates to 0 or less  *)
(* (a temperature window the temperature misses, a missing temperature, a  *)
(* non-positive constant), runReactor returns a mixture equal to the       *)
(* starting mixture, for every step count and dt.                          *)
C4_DisabledRulesReturnStart ==
    AllDisabled => \A n \in DOMAIN returned : returned[n].mix = given.itemMix

(* A run of at least one step over a temperature-window rule whose inputs  *)
(* the mixture holds, with the temperature missing or outside the window.  *)
C4_Witness ==
    /\ Len(returned) >= 1
    /\ optSteps(options) > 0
    /\ Len(rules) >= 1
    /\ AllDisabled
    /\ \E j \in DOMAIN rules :
            /\ rules[j].condition.kind = "temperatureWindow"
            /\ QGt(ruleLimit(rules[j], given.itemMix), Zero)

(* C6: two runs of runReactor on the same starting mixture, options and    *)
(* ordered rule list return equal mixtures.                                *)
C6_RunsAgree ==
    \A m \in DOMAIN returned, n \in DOMAIN returned : returned[m].mix = returned[n].mix

(* Two runs have returned, and the reactions did change the mixture. *)
C6_Witness ==
    /\ Len(returned) = 2
    /\ returned[1].mix # given.itemMix

(* C7: a run leaves the caller's starting mixture, catalysts and tag map   *)
(* as they were.                                                           *)
C7_CallerObjectsUnchanged == \A r \in DOMAIN given : heap[r] = given[r]

(* A run that was handed catalysts and tags has returned a mixture that    *)
(* differs from the starting one, in an object of its own.                 *)
C7_Witness ==
    /\ Len(returned) >= 1
    /\ Has(options, "catalysts") /\ Has(options, "tags")
    /\ returned[1].ref # "itemMix"
    /\ returned[1].mix # given.itemMix

-----------------------------------------------------------------------------
(* Metabolism (dna.ts ingest, tickMetabolism, deriveMacroSnapshot;         *)
(* systems/chemistry.ts ensureChemistry, tickNpcChemistry)                 *)

REACTIONS_BODY ==
    << ReactionRule([GLU |-> One, O2 |-> One], [ATP |-> One, CO2 |-> One], <<1, 5>>, Always),
       ReactionRule([FRUCT |-> One, O2 |-> One], [ATP |-> <<4, 5>>, CO2 |-> One], <<9, 50>>, Always),
       ReactionRule([ATP |-> One], [TEMP |-> <<1, 50>>], <<1, 10>>, Always),
       ReactionRule([ATP |-> One, OXIDIZER |-> <<2, 5>>],
                    [OX_STRESS |-> <<3, 5>>, CO2 |-> <<2, 5>>], <<3, 25>>, Always),
       ReactionRule([IRON |-> <<3, 10>>, CHELATOR |-> <<2, 5>>],
                    [CHELATED_METAL |-> <<3, 5>>], <<2, 25>>, Always),
       ReactionRule([H2O |-> One, SALT |-> <<2, 5>>],
                    [DEHYDRATION_SIGNAL |-> <<3, 5>>], <<1, 10>>, Always),
       ReactionRule([PH |-> <<1, 10>>, PH_ACID |-> Half], [PH_SHIFT |-> Half], <<1, 10>>, Always),
       ReactionRule([PH |-> <<1, 10>>, PH_BASE |-> Half], [PH_SHIFT |-> Half], <<1, 10>>, Always),
       ReactionRule([PH_SHIFT |-> Half, PH_BUFFER |-> Half], NoMix, <<3, 5>>, Always),
       ReactionRule([OXIDIZER |-> <<2, 5>>, PH_BUFFER |-> <<2, 5>>],
                    [OX_STRESS |-> <<1, 5>>], <<1, 5>>, Always) >>

REACTIONS_WORLD ==
    << ReactionRule([H2O |-> Half], [HUMIDADE |-> Half], <<1, 20>>,
                    tagThreshold("rainfall", <<3, 5>>)),
       ReactionRule([MINERAL_DUST |-> One, H2O |-> <<1, 5>>], [SALT |-> <<3, 10>>],
                    <<1, 20>>, Always) >>

REACTIONS_SOCIAL ==
    << ReactionRule([SER |-> <<1, 5>>, DOPA |-> <<1, 5>>], [SOCIAL_BOND |-> <<2, 5>>],
                    <<2, 25>>, tagThreshold("trust", Half)) >>

REACTIONS_LIBRARY ==
    [REACTIONS_WORLD |-> REACTIONS_WORLD, REACTIONS_BODY |-> REACTIONS_BODY,
     REACTIONS_SOCIAL |-> REACTIONS_SOCIAL]

flattenReactions(library) ==
    library.REACTIONS_WORLD \o library.REACTIONS_BODY \o library.REACTIONS_SOCIAL

(* The substances whose name starts with 'ENZ_' (SUBSTANCES) *)
EnzymeKeys == {"ENZ_X", "ENZ_METAL"}

(* ensureChemistry: the body a fresh NPC gets *)
DefaultBody == [GLU |-> Half, H2O |-> Half, O2 |-> Half, TEMP |-> Half, PH |-> Half]

(* ingest: the stomach after the call *)
ingest(npcStomach, itemMix, amount) == mixMerge(npcStomach, mixScale(itemMix, amount))

(* for (const reaction of reactions) reaction.apply(ctx, dt) *)
RECURSIVE applyAll(_, _, _, _, _)
applyAll(mx, rest, reactions, n, dt) ==
    IF n > Len(reactions) THEN mx
    ELSE CHOOSE r \in {applyAll(v, rest, reactions, n + 1, dt) :
                         v \in {apply(reactions[n], [mix |-> mx] @@ rest, dt)}} : TRUE

absorbedFraction_unclamped(dt) == QMax(Zero, QMul(<<1, 10>>, dt))

absorbedFraction(dt) == clamp(QMul(<<1, 10>>, dt), Zero, Half)

(* The rules run on the body pool instead of the stomach. *)
tickMetabolism_reactsInBody(npcBody, npcStomach, reactions, dt) ==
    LET rest == [temperature |-> mixGet(npcBody, "TEMP"),
                 pH |-> mixGet(npcBody, "PH"),
                 catalysts |-> [k \in (DOMAIN npcBody) \cap EnzymeKeys |-> npcBody[k]]]
    IN  CHOOSE r \in
            {[reacted |-> npcStomach,
              absorbed |-> absorbed,
              stomach |-> mixMerge(npcStomach, mixScale(absorbed, <<-1, 1>>)),
              body |-> mixMerge(reacted, absorbed)] :
                <<reacted, absorbed>> \in
                    {<<b, mixScale(npcStomach, absorbedFraction(dt))>> :
                        b \in {applyAll(npcBody, rest, reactions, 1, dt)}}} : TRUE

(* tickMetabolism up to the reassignment of the two pools.  deriveMacroStates *)
(* writes energy, pain, ... on the npc argument only; tickNpcChemistry passes  *)
(* a temporary object and drops these fields, so they are not state.           *)
tickMetabolism(npcBody, npcStomach, reactions, dt) ==
    LET rest == [temperature |-> mixGet(npcBody, "TEMP"),
                 pH |-> mixGet(npcBody, "PH"),
                 catalysts |-> [k \in (DOMAIN npcBody) \cap EnzymeKeys |-> npcBody[k]]]
    IN  CHOOSE r \in
            {[reacted |-> reacted,
              absorbed |-> absorbed,
              stomach |-> mixMerge(reacted, mixScale(absorbed, <<-1, 1>>)),
              body |-> mixMerge(npcBody, absorbed)] :
                <<reacted, absorbed>> \in
                    {<<s, mixScale(s, absorbedFraction(dt))>> :
                        s \in {applyAll(npcStomach, rest, reactions, 1, dt)}}} : TRUE

(* The seven expressions of deriveMacroSnapshot before they are clamped *)
macroRaw(b) ==
    LET glu == mixGet(b, "GLU")
        atp == mixGet(b, "ATP")
        ser == mixGet(b, "SER")
        water == mixGet(b, "H2O")
        o2 == mixGet(b, "O2")
        oxidativeStress == QAdd(mixGet(b, "OX_STRESS"), QMul(Half, mixGet(b, "OXIDIZER")))
        hydrationLoad == QAdd(QMax(Zero, QSub(<<3, 10>>, water)), mixGet(b, "DEHYDRATION_SIGNAL"))
        oxygenDebt == QMax(Zero, QSub(<<3, 10>>, o2))
        phStress == QMax(Zero,
                         QSub(QAdd(QAdd(mixGet(b, "PH_ACID"), mixGet(b, "PH_BASE")),
                                   mixGet(b, "PH_SHIFT")),
                              mixGet(b, "PH_BUFFER")))
        chelationStress == mixGet(b, "CHELATED_METAL")
        stressChems ==
            QAdd(QAdd(QAdd(QAdd(QAdd(QAdd(mixGet(b, "STRESS"), mixGet(b, "CORT")),
                                     mixGet(b, "ADREN")),
                                oxidativeStress),
                           phStress),
                      hydrationLoad),
                 chelationStress)
        dopa == mixGet(b, "DOPA")
    IN  [energy |->
            QAdd(Half,
                 QSub(QSub(QSub(QAdd(QMul(<<1, 20>>, atp), QMul(<<1, 50>>, glu)),
                                QMul(<<1, 25>>, oxygenDebt)),
                           QMul(<<1, 25>>, phStress)),
                      QMul(<<3, 100>>, hydrationLoad))),
         pain |->
            QAdd(QAdd(QAdd(QMul(<<1, 20>>, oxidativeStress), QMul(<<1, 25>>, phStress)),
                      QMul(<<1, 25>>, hydrationLoad)),
                 QMul(<<1, 50>>, chelationStress)),
         mood |->
            QAdd(Half,
                 QSub(QSub(QSub(QMul(<<1, 25>>, ser), QMul(<<1, 50>>, stressChems)),
                           QMul(<<3, 100>>, phStress)),
                      QMul(<<1, 50>>, hydrationLoad))),
         focus |->
            QAdd(Half, QSub(QMul(<<1, 25>>, dopa), QMul(<<3, 100>>, stressChems))),
         hungerSignal |->
            QAdd(Half, QSub(QSub(<<3, 100>>, QMul(<<1, 20>>, glu)), QMul(<<1, 25>>, atp))),
         thirstSignal |->
            QAdd(Half,
                 QSub(QAdd(<<3, 100>>, QMul(<<1, 20>>, hydrationLoad)), QMul(<<2, 25>>, water))),
         stress |-> stressChems]

deriveMacroSnapshot_unclamped(b) == macroRaw(b)

deriveMacroSnapshot(b) ==
    LET raw == macroRaw(b)
    IN  [f \in DOMAIN raw |-> clamp(raw[f], Zero, One)]

(* ---- the calls an NPC's chemistry receives ---- *)

(* raw-salt and raw-water of the seed registry, and two mixtures that feed *)
(* the glucose and the buffer reactions of REACTIONS_BODY                  *)
IngestItems ==
    { [SALT |-> <<4, 5>>],
      [H2O |-> One],
      [GLU |-> One, O2 |-> One],
      [PH_SHIFT |-> Half, PH_BUFFER |-> Half] }

IngestAmounts == {One}

TickDts == {<<-1, 1>>, Two, <<5, 1>>, <<100, 1>>}

Hundred == <<100, 1>>

StartBodies ==
    { DefaultBody,
      NoMix,
      [STRESS |-> Hundred, CORT |-> Hundred, OXIDIZER |-> Hundred, PH_ACID |-> Hundred],
      [GLU |-> Hundred, ATP |-> Hundred, H2O |-> Hundred, SER |-> Hundred,
       DOPA |-> Hundred, PH_BUFFER |-> Hundred] }

NpcInit ==
    /\ body \in StartBodies
    /\ stomach = NoMix
    /\ lastMacro = NoMacro
    /\ tick = NoTick
    /\ nTicks = 0
    /\ nIngests = 0
    /\ MixIdle
    /\ ReactorIdle
    /\ LaterIdle

Ingest ==
    /\ nIngests < MaxIngests
    /\ \E item \in IngestItems, amount \in IngestAmounts :
        stomach' = ingest(stomach, item, amount)
    /\ nIngests' = nIngests + 1
    /\ UNCHANGED <<body, lastMacro, tick, nTicks>>
    /\ UNCHANGED mixVars
    /\ UNCHANGED reactorVars
    /\ UNCHANGED laterVars

(* tickNpcChemistry(npc, REACTIONS_BODY, dtSeconds) *)
TickNpcChemistry ==
    /\ nTicks < MaxTicks
    /\ \E dt \in TickDts :
        \E r \in {tickMetabolism(body, stomach, REACTIONS_BODY, dt)} :
            /\ body' = r.body
            /\ stomach' = r.stomach
            /\ lastMacro' = deriveMacroSnapshot(r.body)
            /\ tick' = [dt |-> dt, reacted |-> r.reacted, bodyBefore |-> body,
                        absorbed |-> r.absorbed, stomach |-> r.stomach, body |-> r.body]
    /\ nTicks' = nTicks + 1
    /\ UNCHANGED nIngests
    /\ UNCHANGED mixVars
    /\ UNCHANGED reactorVars
    /\ UNCHANGED laterVars

NpcNext == Ingest \/ TickNpcChemistry

SpecNpc == NpcInit /\ [][NpcNext]_vars

Ticked == tick # NoTick

(* C2: the absorption step of a tick moves the fraction                    *)
(* f = clamp(0.1 * dt, 0, 0.5) of the stomach into the body: with S the    *)
(* stomach quantity after the rules ran, the stomach ends with S - f * S   *)
(* and the body with its previous quantity plus f * S.                     *)
C2_AbsorptionMovesFraction ==
    Ticked =>
        LET f == clamp(QMul(<<1, 10>>, tick.dt), Zero, Half)
        IN  \A k \in DOMAIN tick.reacted \cup DOMAIN tick.bodyBefore :
                LET S == mixGet(tick.reacted, k)
                IN  /\ mixGet(tick.stomach, k) = QSub(S, QMul(f, S))
                    /\ mixGet(tick.body, k) = QAdd(mixGet(tick.bodyBefore, k), QMul(f, S))

(* C9: in one tick the quantity of each substance added to the body is at  *)
(* most the quantity the stomach holds of it, and at most half of it, for  *)
(* every dt.                                                               *)
C9_AbsorbedAtMostHalf ==
    Ticked =>
        \A k \in DOMAIN tick.body \cup DOMAIN tick.bodyBefore :
            LET added == QSub(mixGet(tick.body, k), mixGet(tick.bodyBefore, k))
                S == mixGet(tick.reacted, k)
            IN  QLe(added, S) /\ QLe(added, QMul(Half, S))

(* A tick with dt = 100 (0.1 * dt far above 0.5) that absorbed something. *)
C9_Witness ==
    /\ Ticked
    /\ tick.dt = <<100, 1>>
    /\ tick.absorbed # NoMix

MacroFields == {"energy", "pain", "mood", "focus", "hungerSignal", "thirstSignal", "stress"}

(* C10: after any sequence of ticks and ingestions, from any non-negative  *)
(* body, the seven fields of the macro snapshot lie in [0, 1].             *)
C10_MacroWithinUnit ==
    lastMacro # NoMacro =>
        /\ DOMAIN lastMacro = MacroFields
        /\ \A f \in MacroFields : QGe(lastMacro[f], Zero) /\ QLe(lastMacro[f], One)

(* After two ticks and an ingestion the body drives one expression of the  *)
(* snapshot above 1 and another one below 0.                               *)
C10_Witness ==
    /\ lastMacro # NoMacro
    /\ nTicks >= 2
    /\ nIngests >= 1
    /\ \E f \in MacroFields : QGt(macroRaw(body)[f], One)
    /\ \E f \in MacroFields : QLt(macroRaw(body)[f], Zero)

-----------------------------------------------------------------------------
(* Mix helpers exercised on caller-supplied maps.  A Mix is any            *)
(* Record<Substance, number>: the type does not exclude zero, negative or  *)
(* sub-EPS quantities, so the argument maps drawn here include them.       *)

MixKeys == {"A", "B"}

TwoEPS == <<1, 500000000>>

RawQuantities == {<<-1, 1>>, Zero, EPS, TwoEPS, Half, One}

DeltaQuantities == {<<-1, 1>>, <<-1, 2>>, Zero, EPS, One}

ScaleFactors == {<<-1, 1>>, Zero, Half, One, <<2, 1>>}

RawMixes == MapsOver(MixKeys, RawQuantities)

DeltaMixes == MapsOver(MixKeys, DeltaQuantities)

(* No entry at or below EPS: the Mixture invariant of the data model. *)
Clean(mx) == \A k \in DOMAIN mx : QGt(mx[k], EPS)

(* Operands the 32-bit integers of the checker can still combine. *)
Fits(mx) == \A k \in DOMAIN mx : mx[k][2] <= 1073741823 /\ Abs(mx[k][1]) <= 1073741823

MixInit ==
    /\ mix \in RawMixes
    /\ call = NoCall
    /\ nOps = 0
    /\ ReactorIdle
    /\ NpcIdle
    /\ LaterIdle

MixAddStep ==
    /\ nOps < MaxOps
    /\ Fits(mix)
    /\ \E key \in MixKeys, value \in DeltaQuantities :
        /\ mix' = mixAdd(mix, key, value)
        /\ call' = [op |-> "mixAdd", mix |-> mix, key |-> key, value |-> value, delta |-> NoMix]
    /\ nOps' = nOps + 1
    /\ UNCHANGED reactorVars
    /\ UNCHANGED npcVars
    /\ UNCHANGED laterVars

MixScaleStep ==
    /\ nOps < MaxOps
    /\ Fits(mix)
    /\ \E scale \in ScaleFactors :
        /\ mix' = mixScale(mix, scale)
        /\ call' = [op |-> "mixScale", mix |-> mix, key |-> "", value |-> scale, delta |-> NoMix]
    /\ nOps' = nOps + 1
    /\ UNCHANGED reactorVars
    /\ UNCHANGED npcVars
    /\ UNCHANGED laterVars

MixMergeStep ==
    /\ nOps < MaxOps
    /\ Fits(mix)
    /\ \E delta \in DeltaMixes :
        /\ mix' = mixMerge(mix, delta)
        /\ call' = [op |-> "mixMerge", mix |-> mix, key |-> "", value |-> Zero, delta |-> delta]
    /\ nOps' = nOps + 1
    /\ UNCHANGED reactorVars
    /\ UNCHANGED npcVars
    /\ UNCHANGED laterVars

MixNext == MixAddStep \/ MixScaleStep \/ MixMergeStep

SpecMix == MixInit /\ [][MixNext]_vars

(* C8 as stated: after any mixAdd, mixScale or mixMerge, whatever the      *)
(* argument map, the resulting mixture holds no entry <= EPS.              *)
C8_AnyArgumentClean == call.op # "none" => Clean(mix)

(* C8 amended: after mixScale on any map, and after mixAdd or mixMerge on  *)
(* a (base) mixture that itself holds no entry <= EPS, the resulting       *)
(* mixture holds no entry <= EPS, for every key, delta and scale factor.   *)
C8_CleanPreserved ==
    (call.op = "mixScale" \/ (call.op \in {"mixAdd", "mixMerge"} /\ Clean(call.mix)))
        => Clean(mix)

(* A merge on a clean base in which one entry cancelled to removal and     *)
(* another one survived.                                                   *)
C8_Witness ==
    /\ call.op = "mixMerge"
    /\ Clean(call.mix)
    /\ \E k \in DOMAIN call.mix : k \notin DOMAIN mix
    /\ mix # NoMix

-----------------------------------------------------------------------------
(* Item registry (world/items.ts) *)

ItemDefinition(id, name, mx) == [id |-> id, name |-> name, mix |-> mx]

(* name.toLowerCase().replace(/\s+/g, '-'), on the names the model uses *)
Slug(name) ==
    CASE name = "Forge product" -> "forge-product"
      [] name = "Refined material" -> "refined-material"
      [] name = "Sal" -> "sal"
      [] name = "brew craft" -> "brew-craft"
      [] name = "cook craft" -> "cook-craft"
      [] name = "refine craft" -> "refine-craft"
      [] name = "forge craft" -> "forge-craft"
      [] name = "grind craft" -> "grind-craft"
      [] name = "material refine" -> "material-refine"
      [] name = "tool refine" -> "tool-refine"
      [] name = "material cook" -> "material-cook"
      [] name = "tool cook" -> "tool-cook"

(* ItemRegistry.register: this.items.set(id, { id, name, mix: { ...mix } }) *)
register(reg, id, name, mx) ==
    [reg EXCEPT !.items = (id :> ItemDefinition(id, name, mx)) @@ reg.items]

(* The id spawnFromMix builds once the counter is incremented *)
spawnId(name, n) == Slug(name) \o "-" \o ToString(n)

(* ItemRegistry.spawnFromMix: the registry after the call, and the id returned *)
spawnFromMix(reg, name, mx) ==
    LET n == reg.counter + 1
        id == spawnId(name, n)
    IN  [registry |-> register([reg EXCEPT !.counter = n], id, name, mx), id |-> id]

(* createSeedItemRegistry: the constructor stores a copy of every seed item *)
SeedItems ==
    <<ItemDefinition("berry-red", "Moranguito",
                     [GLU |-> <<3, 5>>, FRUCT |-> <<2, 5>>, DOCE |-> <<1, 5>>, H2O |-> Half]),
      ItemDefinition("ore-iron", "Minerio de Ferro", [ORE_FE |-> One, MINERAL_DUST |-> <<1, 10>>]),
      ItemDefinition("ore-copper", "Minerio de Cobre", [ORE_CU |-> One, MINERAL_DUST |-> <<1, 10>>]),
      ItemDefinition("water-flask", "Cantimplora", [H2O |-> One]),
      ItemDefinition("raw-wood", "Madeira",
                     [FIBER |-> <<3, 5>>, RESIN |-> <<3, 10>>, H2O |-> <<1, 5>>]),
      ItemDefinition("raw-stone", "Pedra", [SILICA |-> Half, MINERAL_DUST |-> <<2, 5>>]),
      ItemDefinition("raw-coal", "Carvao",
                     [CARBON |-> Half, ORE_COAL |-> Half, COAL |-> <<3, 10>>]),
      ItemDefinition("raw-salt", "Sal", [SALT |-> <<4, 5>>]),
      ItemDefinition("raw-water", "Agua", [H2O |-> One])>>

RECURSIVE seedLoop(_, _, _)
seedLoop(reg, seeds, i) ==
    IF i > Len(seeds) THEN reg
    ELSE seedLoop([reg EXCEPT !.items = (seeds[i].id :> seeds[i]) @@ reg.items], seeds, i + 1)

createSeedItemRegistry == seedLoop([items |-> NoItems, counter |-> 0], SeedItems, 1)

(* A context that carries nothing of the body *)
BodilessCtx == [temperature |-> Zero, pH |-> Zero, catalysts |-> NoMix]

(* C28: over any sequence of ticks no quantity of the body pool ever       *)
(* decreases: the rules of a tick work on the stomach alone, whatever the  *)
(* body holds, and the body changes only in a tick, each of its quantities *)
(* growing by what the tick absorbed of it.                                *)
C28_BodyNeverDecreases ==
    [][/\ \A k \in DOMAIN body : QGe(mixGet(body', k), body[k])
       /\ nTicks' # nTicks =>
            /\ tick'.reacted = applyAll(stomach, BodilessCtx, REACTIONS_BODY, 1, tick'.dt)
            /\ \A k \in DOMAIN body' :
                    body'[k] = QAdd(mixGet(body, k), mixGet(tick'.absorbed, k))
       /\ nTicks' = nTicks => body' = body]_vars

(* A tick in which the glucose rule fired in the stomach and the body took *)
(* up part of what the stomach then held.                                  *)
C28_Witness ==
    /\ Ticked
    /\ "ATP" \in DOMAIN tick.reacted
    /\ tick.absorbed # NoMix
    /\ \E k \in DOMAIN tick.body : QGt(tick.body[k], mixGet(tick.bodyBefore, k))
    /\ \A k \in DOMAIN tick.bodyBefore : QGe(mixGet(tick.body, k), tick.bodyBefore[k])

-----------------------------------------------------------------------------
(* Crafting pipeline (systems/crafting.ts) *)

(* runReactor as a function of its arguments: the two loops, by value *)
RECURSIVE reactionsLoop(_, _, _, _)
reactionsLoop(cx, reactions, dt, j) ==
    IF j > Len(reactions) THEN cx.mix
    ELSE CHOOSE r \in {reactionsLoop([cx EXCEPT !.mix = v], reactions, dt, j + 1) :
                          v \in {apply(reactions[j], cx, dt)}} : TRUE

RECURSIVE stepsLoop(_, _, _, _, _)
stepsLoop(cx, reactions, dt, i, steps) ==
    IF i >= steps THEN cx.mix
    ELSE CHOOSE r \in {stepsLoop([cx EXCEPT !.mix = v], reactions, dt, i + 1, steps) :
                          v \in {reactionsLoop(cx, reactions, dt, 1)}} : TRUE

runReactor(itemMix, o, reactions) ==
    stepsLoop(ctxOf(itemMix, o), reactions, optDt(o), 0, optSteps(o))

(* weights && weights.length === items.length ? weights : new Array(n).fill(1) *)
normalizedWeights(n, weights) ==
    IF weights # None /\ Len(weights[1]) = n THEN weights[1] ELSE [i \in 1..n |-> One]

(* normalizedWeights.reduce((acc, w) => acc + Math.max(w, 0), 0) || items.length *)
RECURSIVE positiveSum(_, _)
positiveSum(ws, i) ==
    IF i > Len(ws) THEN Zero ELSE QAdd(QMax(ws[i], Zero), positiveSum(ws, i + 1))

weightSum(n, weights) ==
    LET sum == positiveSum(normalizedWeights(n, weights), 1)
    IN  IF sum = Zero THEN <<n, 1>> ELSE sum

(* const weight = Math.max(normalizedWeights[idx] ?? 1, 0) / weightSum, per idx *)
appliedWeights(n, weights) ==
    [idx \in 1..n |->
        QDiv(QMax(normalizedWeights(n, weights)[idx], Zero), weightSum(n, weights))]

RECURSIVE combineLoop(_, _, _, _)
combineLoop(acc, inputs, ws, idx) ==
    IF idx > Len(inputs) THEN acc
    ELSE CHOOSE r \in {combineLoop(v, inputs, ws, idx + 1) :
                          v \in {mixMerge(acc, mixScale(inputs[idx].mix, ws[idx]))}} : TRUE

combineMixes(inputs, weights) ==
    IF Len(inputs) = 0 THEN NoMix
    ELSE combineLoop(NoMix, inputs, appliedWeights(Len(inputs), weights), 1)

processOptions(process) ==
    CASE process = "forge" ->
            [temperature |-> <<9, 10>>, tags |-> [heat |-> One], steps |-> 8, dt |-> <<4, 5>>]
      [] process = "cook" ->
            [temperature |-> <<13, 20>>, tags |-> [heat |-> <<3, 5>>, wet |-> <<1, 5>>],
             steps |-> 6, dt |-> <<3, 5>>]
      [] process = "brew" ->
            [temperature |-> <<11, 20>>, tags |-> [wet |-> One], steps |-> 10, dt |-> Half]
      [] process = "refine" ->
            [temperature |-> <<3, 4>>, tags |-> [heat |-> <<4, 5>>, oxidize |-> Half],
             steps |-> 7, dt |-> <<7, 10>>]
      [] OTHER -> <<>>

(* typeof random?.choice === 'function' && 'next' in random                *)
(*     ? random.next!() : Math.random()                                    *)
(* random = [choice |-> it has a choice function, next? |-> the value its  *)
(* next() delivers]; mathRandom is what Math.random() would return.        *)
variationOf(random, mathRandom) ==
    IF random.choice /\ Has(random, "next")
    THEN [source |-> "random.next", value |-> random.next]
    ELSE [source |-> "Math.random", value |-> mathRandom]

(* { ...options, tags: { ...(options.tags ?? {}), variation } } *)
withVariation(o, variation) ==
    LET tags == IF Has(o, "tags") THEN o.tags ELSE <<>>
    IN  ("tags" :> (("variation" :> variation) @@ tags)) @@ o

(* labelHint || `${process} craft` *)
craftLabel(process, labelHint) == IF labelHint = "" THEN process \o " craft" ELSE labelHint

(* craftOnce: what it computes, the registry it leaves and the id it returns *)
craftOnce(random, mathRandom, reg, reactions, inputs, process, labelHint, weights) ==
    LET combined == combineMixes(inputs, weights)
        variation == variationOf(random, mathRandom)
        reactedMix == runReactor(combined, withVariation(processOptions(process), variation.value),
                                 reactions)
        spawned == spawnFromMix(reg, craftLabel(process, labelHint), reactedMix)
    IN  [combined |-> combined, variation |-> variation, mix |-> reactedMix,
         registry |-> spawned.registry, id |-> spawned.id]

-----------------------------------------------------------------------------
(* Calls on the registry and of craftOnce, from the seed registry *)

Registry == [items |-> items, counter |-> counter]

Quarter == <<1, 4>>

(* What callers pass: ids for register, names, mixtures, item lists,       *)
(* weight lists, processes, label hints, random sources.                   *)
RegisterIds == {"raw-water", "forge-product-1", "brine"}

SpawnNames == {"Sal", "Forge product"}

SpawnMixes == {[SALT |-> One]}

CraftInputIds == {<<>>, <<"raw-salt">>, <<"raw-salt", "raw-water">>}

CraftWeights ==
    {None, Some(<<One, Three>>), Some(<<Zero, Zero>>), Some(<<QNeg(One), One>>)}

CraftProcesses == {"brew", "grind"}

LabelHints == {"", "Forge product"}

RandomSources ==
    {[choice |-> TRUE, next |-> Zero], [choice |-> TRUE, next |-> Half], [choice |-> TRUE]}

MathRandomValues == {Quarter, <<3, 4>>}

(* The rule list handed to craftOnce: salt dissolving in water at brewing  *)
(* temperature.                                                            *)
CraftReactions ==
    <<ReactionRule([H2O |-> One, SALT |-> Half], [BRINE |-> One], Two,
                   temperatureWindow(Half, <<3, 5>>))>>

CraftInit ==
    /\ items = createSeedItemRegistry.items
    /\ counter = createSeedItemRegistry.counter
    /\ craft = <<>>
    /\ EngineIdle
    /\ AnalyzerIdle
    /\ StoreIdle
    /\ StoreCallIdle
    /\ MemoryIdle
    /\ WorkIdle

Register ==
    /\ Len(craft) < MaxCrafts
    /\ \E id \in RegisterIds, mx \in SpawnMixes :
        \E reg \in {register(Registry, id, "Sal", mx)} :
            /\ items' = reg.items
            /\ counter' = reg.counter
            /\ craft' = Append(craft, [op |-> "register", id |-> id, before |-> Registry])
    /\ UNCHANGED engineVars
    /\ UNCHANGED analyzerVars
    /\ UNCHANGED storeVars
    /\ UNCHANGED storeCallVars
    /\ UNCHANGED memoryVars
    /\ UNCHANGED workVars

SpawnFromMix ==
    /\ Len(craft) < MaxCrafts
    /\ \E name \in SpawnNames, mx \in SpawnMixes :
        \E r \in {spawnFromMix(Registry, name, mx)} :
            /\ items' = r.registry.items
            /\ counter' = r.registry.counter
            /\ craft' = Append(craft, [op |-> "spawnFromMix", id |-> r.id, before |-> Registry])
    /\ UNCHANGED engineVars
    /\ UNCHANGED analyzerVars
    /\ UNCHANGED storeVars
    /\ UNCHANGED storeCallVars
    /\ UNCHANGED memoryVars
    /\ UNCHANGED workVars

(* The forge scenario: an ore and a carbon item, crafted with the forge    *)
(* preset under the engine's whole library                                 *)
ForgeInputs ==
    <<ItemDefinition("ore", "Ore", [ORE_FE |-> One]),
      ItemDefinition("carbon", "Carbon", [CARBON |-> Half])>>

ForgeCalls ==
    {[inputs |-> ForgeInputs, process |-> "forge", labelHint |-> "", weights |-> None,
      reactions |-> flattenReactions(REACTIONS_LIBRARY)]}

CraftOnce ==
    /\ Len(craft) < MaxCrafts
    /\ \E random \in RandomSources, mathRandom \in MathRandomValues :
        \E request \in ForgeCalls \cup
                {[inputs |-> [i \in DOMAIN ids |-> items[ids[i]]], process |-> process,
                  labelHint |-> labelHint, weights |-> weights,
                  reactions |-> CraftReactions] :
                    ids \in CraftInputIds, process \in CraftProcesses,
                    labelHint \in LabelHints, weights \in CraftWeights} :
        \E r \in {craftOnce(random, mathRandom, Registry, request.reactions, request.inputs,
                            request.process, request.labelHint, request.weights)} :
            /\ items' = r.registry.items
            /\ counter' = r.registry.counter
            /\ craft' = Append(craft,
                    [op |-> "craftOnce", id |-> r.id, before |-> Registry,
                     random |-> random, inputs |-> request.inputs, process |-> request.process,
                     labelHint |-> request.labelHint, weights |-> request.weights,
                     reactions |-> request.reactions,
                     applied |-> appliedWeights(Len(request.inputs), request.weights),
                     combined |-> r.combined, variation |-> r.variation, mix |-> r.mix])
    /\ UNCHANGED engineVars
    /\ UNCHANGED analyzerVars
    /\ UNCHANGED storeVars
    /\ UNCHANGED storeCallVars
    /\ UNCHANGED memoryVars
    /\ UNCHANGED workVars

CraftNext == Register \/ SpawnFromMix \/ CraftOnce

SpecCraft == CraftInit /\ [][CraftNext]_vars

RECURSIVE SumSeq(_, _)
SumSeq(ws, i) == IF i > Len(ws) THEN Zero ELSE QAdd(ws[i], SumSeq(ws, i + 1))

(* C11: for every non-empty item list and every weight list (none given    *)
(* included), the weights combineMixes applies are non-negative and sum to *)
(* 1.                                                                      *)
C11_AppliedWeightsSumToOne ==
    \A n \in DOMAIN craft :
        (craft[n].op = "craftOnce" /\ Len(craft[n].inputs) > 0)
            => /\ \A i \in DOMAIN craft[n].applied : QGe(craft[n].applied[i], Zero)
               /\ SumSeq(craft[n].applied, 1) = One

(* C14: every spawnFromMix (and so every craftOnce) returns an id that the  *)
(* registry did not hold before the call and raises the counter, and no    *)
(* call of register, spawnFromMix or craftOnce overwrites or removes an    *)
(* item the registry held before it.                                       *)
C14_RegistryAppendOnly ==
    \A n \in DOMAIN craft :
        LET after == IF n = Len(craft) THEN Registry ELSE craft[n + 1].before
        IN  /\ craft[n].op \in {"spawnFromMix", "craftOnce"}
                => /\ craft[n].id \notin DOMAIN craft[n].before.items
                   /\ after.counter > craft[n].before.counter
            /\ \A id \in DOMAIN craft[n].before.items :
                    /\ id \in DOMAIN after.items
                    /\ after.items[id] = craft[n].before.items[id]

(* What the caller's random source delivered to the craft, if anything *)
Delivered(c) == IF Has(c.random, "next") THEN Some(c.random.next) ELSE None

(* C15: a craft takes its variation from the caller's random source and    *)
(* never from Math.random, and two crafts with the same inputs, weights,   *)
(* process and rules to which the caller's source delivered the same value *)
(* produce the same mixture.                                               *)
C15_VariationFromCaller ==
    /\ \A n \in DOMAIN craft :
            craft[n].op = "craftOnce" => craft[n].variation.source = "random.next"
    /\ \A m \in DOMAIN craft, n \in DOMAIN craft :
            (/\ craft[m].op = "craftOnce" /\ craft[n].op = "craftOnce"
             /\ craft[m].inputs = craft[n].inputs /\ craft[m].weights = craft[n].weights
             /\ craft[m].process = craft[n].process
             /\ Delivered(craft[m]) = Delivered(craft[n]))
                => craft[m].mix = craft[n].mix

-----------------------------------------------------------------------------
(* Mixture analyzer (world/itemAnalyzer.ts).  The analyzer walks           *)
(* Object.entries(mix), so a mixture is here the sequence of its entries   *)
(* <<key, value>> in insertion order, with distinct keys.                  *)

TAG_THRESHOLD == <<1, 20>>

Range(seq) == {seq[i] : i \in DOMAIN seq}

EntryKeys(es) == {es[i][1] : i \in DOMAIN es}

(* Object.entries of a mixture kept as a function: some insertion order *)
RECURSIVE entriesOf(_)
entriesOf(mx) ==
    IF DOMAIN mx = {} THEN <<>>
    ELSE LET k == CHOOSE x \in DOMAIN mx : TRUE
         IN  <<<<k, mx[k]>>>> \o entriesOf([j \in DOMAIN mx \ {k} |-> mx[j]])

RECURSIVE filterEntries(_, _)
filterEntries(es, i) ==
    IF i > Len(es) THEN <<>>
    ELSE (IF QGt(es[i][2], EPS) THEN <<es[i]>> ELSE <<>>) \o filterEntries(es, i + 1)

(* Object.entries(mix).filter(([, v]) => v > EPS) *)
relevantEntries(es) == filterEntries(es, 1)

RECURSIVE entriesTotal(_, _)
entriesTotal(es, i) == IF i > Len(es) THEN Zero ELSE QAdd(es[i][2], entriesTotal(es, i + 1))

RECURSIVE divideEntries(_, _, _)
divideEntries(es, total, i) ==
    IF i > Len(es) THEN <<>>
    ELSE <<<<es[i][1], QDiv(es[i][2], total)>>>> \o divideEntries(es, total, i + 1)

(* The quantities divided by the total of all entries, dropped ones        *)
(* included.                                                               *)
normalizeMix_totalOfAll(es) ==
    LET filtered == CHOOSE f \in {relevantEntries(es)} : TRUE
        total == CHOOSE t \in {entriesTotal(es, 1)} : TRUE
    IN  IF QLe(total, EPS) THEN <<>> ELSE divideEntries(filtered, total, 1)

normalizeMix(es) ==
    LET filtered == CHOOSE f \in {relevantEntries(es)} : TRUE
        total == CHOOSE t \in {entriesTotal(filtered, 1)} : TRUE
    IN  IF QLe(total, EPS) THEN <<>> ELSE divideEntries(filtered, total, 1)

(* a.localeCompare(b) on the substance names the model uses: their rank in *)
(* collation order                                                         *)
LocaleOrder ==
    <<"BRINE", "CARBON", "COAL", "DOCE", "FAT", "FIBER", "FRUCT", "GLU", "H2O",
      "MINERAL_DUST", "ORE_COAL", "ORE_CU", "ORE_FE", "OXIDIZER", "PH_ACID", "PH_BUFFER",
      "RESIN", "SALT",
      "SILICA", "SLAG">>

localeRank(k) == CHOOSE i \in DOMAIN LocaleOrder : LocaleOrder[i] = k

(* The sort left out: the entries stay in insertion order. *)
sortEntries_unsorted(es) == es

(* .sort(([a], [b]) => a.localeCompare(b)) *)
RECURSIVE sortEntries(_)
sortEntries(es) ==
    IF Len(es) = 0 THEN <<>>
    ELSE LET first == CHOOSE i \in DOMAIN es :
                        \A j \in DOMAIN es : localeRank(es[i][1]) <= localeRank(es[j][1])
         IN  <<es[first]>> \o
             sortEntries(SubSeq(es, 1, first - 1) \o SubSeq(es, first + 1, Len(es)))

(* Math.round(v * 1000) for 0 <= v <= 1: the largest integer r with        *)
(* r - 1/2 <= 1000 v, found by bisection where the product would leave 32  *)
(* bits                                                                    *)
RECURSIVE roundBetween(_, _, _)
roundBetween(v, lo, hi) ==
    IF lo = hi THEN lo
    ELSE LET mid == (lo + hi + 1) \div 2
         IN  IF QLe(Q(2 * mid - 1, 2000), v) THEN roundBetween(v, mid, hi)
             ELSE roundBetween(v, lo, mid - 1)

round1000(v) ==
    IF v[1] < 500000 /\ v[2] < 1000000000
    THEN (2000 * v[1] + v[2]) \div (2 * v[2])
    ELSE roundBetween(v, 0, 1000)

(* The fraction printed without its leading zeros. *)
toFixed3_unpadded(r) == ToString(r \div 1000) \o "." \o ToString(r % 1000)

(* (r / 1000).toFixed(3) *)
toFixed3(r) ==
    LET frac == r % 1000
    IN  ToString(r \div 1000) \o "." \o
        (IF frac < 10 THEN "00" ELSE IF frac < 100 THEN "0" ELSE "") \o ToString(frac)

RECURSIVE joinParts(_, _)
joinParts(es, i) ==
    LET part == es[i][1] \o ":" \o toFixed3(round1000(es[i][2]))
    IN  IF i = Len(es) THEN part ELSE part \o "|" \o joinParts(es, i + 1)

mixSignature(es) ==
    LET parts == sortEntries(normalizeMix(es))
    IN  IF Len(parts) > 0 THEN joinParts(parts, 1) ELSE "empty"

(* relevantEntries(mix).some(([k, v]) => keys.includes(k) && v > TAG_THRESHOLD) *)
hasRelevant(es, keys) ==
    \E e \in Range(relevantEntries(es)) : e[1] \in keys /\ QGt(e[2], TAG_THRESHOLD)

(* keys.reduce((acc, key) => acc + (normalized[key] ?? 0), 0) on normalizeMix(mix) *)
RECURSIVE shareOf(_, _, _)
shareOf(es, keys, i) ==
    IF i > Len(es) THEN Zero
    ELSE QAdd(IF es[i][1] \in keys THEN es[i][2] ELSE Zero, shareOf(es, keys, i + 1))

proportion(es, keys) == shareOf(normalizeMix(es), keys, 1)

(* The names that start with 'ORE_' *)
OreKeys == {"ORE_FE", "ORE_CU", "ORE_SN", "ORE_AU", "ORE_COAL"}

(* The substance group of each primitive tag, in the order analyzeMix tests them *)
TagGroups ==
    <<[tag |-> "ore", keys |-> OreKeys],
      [tag |-> "metal", keys |-> {"IRON", "FE", "CU", "SN", "AU"}],
      [tag |-> "wood", keys |-> {"FIBER", "RESIN"}],
      [tag |-> "stone", keys |-> {"SILICA", "MINERAL_DUST"}],
      [tag |-> "food", keys |-> {"GLU", "FRUCT", "UMAMI", "FAT", "PROTEIN"}],
      [tag |-> "drink", keys |-> {"H2O"}],
      [tag |-> "fuel", keys |-> {"CARBON", "COAL", "ORE_COAL"}],
      [tag |-> "reactive", keys |-> {"OXIDIZER", "PH_ACID", "PH_BASE", "CHELATOR"}],
      [tag |-> "balancing", keys |-> {"PH_BUFFER"}]>>

RECURSIVE pushTags(_, _)
pushTags(normalized, i) ==
    IF i > Len(TagGroups) THEN <<>>
    ELSE (IF hasRelevant(normalized, TagGroups[i].keys) THEN <<TagGroups[i].tag>> ELSE <<>>)
         \o pushTags(normalized, i + 1)

(* The thirteen traits: proportion(normalized, keys) per substance group,  *)
(* reactivity the sum of five of them                                      *)
traitsOf(normalized) ==
    LET oxidizingPower == proportion(normalized, {"OXIDIZER"})
        acidityPotential == proportion(normalized, {"PH_ACID"})
        basicityPotential == proportion(normalized, {"PH_BASE"})
        chelatingPower == proportion(normalized, {"CHELATOR"})
        osmoticLoad == proportion(normalized, {"SALT"})
    IN  [hydration |-> proportion(normalized, {"H2O"}),
         calories |-> proportion(normalized, {"GLU", "FRUCT", "FAT", "PROTEIN"}),
         bitterness |-> proportion(normalized, {"AMARGO"}),
         umami |-> proportion(normalized, {"UMAMI"}),
         mineralness |-> proportion(normalized, {"SILICA", "MINERAL_DUST", "SALT", "SLAG"}),
         metalness |-> proportion(normalized, {"IRON", "FE", "CU", "SN", "AU", "ORE_FE",
                                               "ORE_CU", "ORE_SN", "ORE_AU", "ORE_COAL"}),
         oxidizingPower |-> oxidizingPower,
         acidityPotential |-> acidityPotential,
         basicityPotential |-> basicityPotential,
         chelatingPower |-> chelatingPower,
         bufferingPower |-> proportion(normalized, {"PH_BUFFER"}),
         osmoticLoad |-> osmoticLoad,
         reactivity |-> QAdd(oxidizingPower,
                             QAdd(acidityPotential,
                                  QAdd(basicityPotential,
                                       QAdd(chelatingPower, osmoticLoad))))]

(* Object.entries(normalized).filter(([k]) => k.startsWith('ORE_')) *)
RECURSIVE oreEntriesOf(_, _)
oreEntriesOf(es, i) ==
    IF i > Len(es) THEN <<>>
    ELSE (IF es[i][1] \in OreKeys THEN <<es[i]>> ELSE <<>>) \o oreEntriesOf(es, i + 1)

(* oreEntries.reduce((best, current) => (current[1] > best[1] ? current : best)) *)
RECURSIVE reduceBest(_, _, _)
reduceBest(es, best, i) ==
    IF i > Len(es) THEN best
    ELSE reduceBest(es, IF QGt(es[i][2], best[2]) THEN es[i] ELSE best, i + 1)

dominantOre(normalized) ==
    LET oreEntries == oreEntriesOf(normalized, 1)
    IN  IF Len(oreEntries) > 0 THEN Some(reduceBest(oreEntries, oreEntries[1], 2)[1])
        ELSE None

oreNameMap ==
    [ORE_FE |-> "Minério de Ferro", ORE_CU |-> "Minério de Cobre",
     ORE_SN |-> "Minério de Estanho", ORE_AU |-> "Minério de Ouro"]

(* The chain with the tests for wood and stone exchanged. *)
canonicalName_stoneFirst(tags, traits, dominant) ==
    IF "ore" \in Range(tags)
    THEN (IF dominant # None /\ dominant[1] \in DOMAIN oreNameMap
          THEN oreNameMap[dominant[1]] ELSE "Minério")
    ELSE IF "stone" \in Range(tags) THEN "Pedra"
    ELSE IF "wood" \in Range(tags) THEN "Madeira"
    ELSE IF "drink" \in Range(tags)
         THEN (IF QGt(traits.hydration, <<4, 5>>) THEN "Água" ELSE "Bebida")
    ELSE IF "food" \in Range(tags) THEN "Comida"
    ELSE IF "fuel" \in Range(tags) THEN "Combustível"
    ELSE "Material"

(* let canonicalName = 'Material'; if (tags.includes('ore')) ... else if ... *)
canonicalName(tags, traits, dominant) ==
    IF "ore" \in Range(tags)
    THEN (IF dominant # None /\ dominant[1] \in DOMAIN oreNameMap
          THEN oreNameMap[dominant[1]] ELSE "Minério")
    ELSE IF "wood" \in Range(tags) THEN "Madeira"
    ELSE IF "stone" \in Range(tags) THEN "Pedra"
    ELSE IF "drink" \in Range(tags)
         THEN (IF QGt(traits.hydration, <<4, 5>>) THEN "Água" ELSE "Bebida")
    ELSE IF "food" \in Range(tags) THEN "Comida"
    ELSE IF "fuel" \in Range(tags) THEN "Combustível"
    ELSE "Material"

(* The qualifiers in push order *)
qualifiersOf(tags, traits) ==
    LET has(tag) == tag \in Range(tags)
        over(value) == QGt(value, <<7, 20>>)
    IN  (IF over(traits.mineralness) /\ has("drink") THEN <<"salobra">> ELSE <<>>)
        \o (IF over(traits.mineralness) /\ (has("ore") \/ has("metal"))
            THEN <<"impuro">> ELSE <<>>)
        \o (IF QGt(traits.calories, <<9, 20>>) /\ has("food") THEN <<"nutritivo">> ELSE <<>>)
        \o (IF over(traits.reactivity) THEN <<"reativo">> ELSE <<>>)

RECURSIVE joinComma(_, _)
joinComma(qs, i) == IF i = Len(qs) THEN qs[i] ELSE qs[i] \o ", " \o joinComma(qs, i + 1)

(* qualifiers.length ? `${canonicalName} (${qualifiers.join(', ')})` : canonicalName *)
displayName(name, qualifiers) ==
    IF Len(qualifiers) > 0 THEN name \o " (" \o joinComma(qualifiers, 1) \o ")" ELSE name

(* analyzeMix: the tags in push order, the traits, the names and the       *)
(* signature                                                               *)
analyzeMix(es) ==
    LET normalized == CHOOSE n \in {normalizeMix(es)} : TRUE
        primitive == pushTags(normalized, 1)
        fired == Range(primitive)
        tags == primitive
                \o (IF "food" \in fired \/ "wood" \in fired THEN <<"organic">> ELSE <<>>)
                \o (IF "ore" \in fired \/ "stone" \in fired \/ "metal" \in fired
                    THEN <<"inorganic">> ELSE <<>>)
        traits == CHOOSE t \in {traitsOf(normalized)} : TRUE
        name == canonicalName(tags, traits, dominantOre(normalized))
    IN  [tags |-> tags, traits |-> traits, canonicalName |-> name,
         displayName |-> displayName(name, qualifiersOf(tags, traits)),
         signature |-> mixSignature(es)]

-----------------------------------------------------------------------------
(* The analyzer on pairs of mixtures: the second holds the entries of the  *)
(* first, inserted in any order and multiplied by a positive factor.       *)

AnalyzerKeys == {"GLU", "FRUCT", "H2O"}

AnalyzerQuantities == {EPS, TwoEPS, <<1, 100>>, <<23, 100>>}

AnalyzerScales == {One, Two}

(* The objects over the keys: every insertion order of every set of keys *)
EntryLists ==
    UNION {{es \in [1..n -> AnalyzerKeys \X AnalyzerQuantities] :
                \A i \in 1..n, j \in 1..n : i # j => es[i][1] # es[j][1]} :
           n \in 0..Cardinality(AnalyzerKeys)}

InsertionOrders(n) == {p \in [1..n -> 1..n] : \A i \in 1..n, j \in 1..n : i # j => p[i] # p[j]}

Rebuilt(es, p, c) == [i \in DOMAIN es |-> <<es[p[i]][1], QMul(es[p[i]][2], c)>>]

(* Mixtures over one substance of each name-giving group, in two insertion *)
(* orders: each substance absent or present, the ores and the water from a *)
(* trace to three units.                                                   *)
NameKeys == <<"ORE_FE", "ORE_CU", "ORE_COAL", "FIBER", "SILICA", "H2O", "GLU", "CARBON">>

NameQuantities(k) ==
    IF k \in {"ORE_FE", "ORE_CU", "H2O"} THEN {Zero, <<1, 100>>, One, Three} ELSE {Zero, One}

(* Mixtures concentrated in the groups the traits add up *)
ConcentratedKeys == <<"SALT", "OXIDIZER", "PH_ACID", "H2O">>

ConcentratedQuantities(k) == {Zero, One, Hundred}

(* The object holding keys[i] at q[i], for the i with q[i] # 0 *)
RECURSIVE EntriesFrom(_, _, _)
EntriesFrom(keys, q, i) ==
    IF i > Len(keys) THEN <<>>
    ELSE (IF q[i] = Zero THEN <<>> ELSE <<<<keys[i], q[i]>>>>) \o EntriesFrom(keys, q, i + 1)

Reversed(es) == [i \in DOMAIN es |-> es[Len(es) + 1 - i]]

NameLists ==
    UNION {{EntriesFrom(NameKeys, q, 1), Reversed(EntriesFrom(NameKeys, q, 1))} :
           q \in {f \in [DOMAIN NameKeys -> {Zero, <<1, 100>>, One, Three}] :
                    \A i \in DOMAIN NameKeys : f[i] \in NameQuantities(NameKeys[i])}}

ConcentratedLists ==
    {EntriesFrom(ConcentratedKeys, q, 1) :
        q \in {f \in [DOMAIN ConcentratedKeys -> {Zero, One, Hundred}] :
                 \A i \in DOMAIN ConcentratedKeys :
                    f[i] \in ConcentratedQuantities(ConcentratedKeys[i])}}

AnalyzeInit ==
    /\ \/ \E es \in EntryLists, c \in AnalyzerScales :
            \E p \in InsertionOrders(Len(es)) :
                sample = [a |-> es, b |-> Rebuilt(es, p, c)]
       \/ \E es \in NameLists \cup ConcentratedLists :
            sample = [a |-> es, b |-> es]
    /\ analysis = NoAnalysis
    /\ EngineIdle
    /\ RegistryIdle
    /\ CraftIdle
    /\ StoreIdle
    /\ StoreCallIdle
    /\ MemoryIdle
    /\ WorkIdle

Analyze ==
    /\ analysis = NoAnalysis
    /\ analysis' = [a |-> analyzeMix(sample.a), b |-> analyzeMix(sample.b)]
    /\ UNCHANGED sample
    /\ UNCHANGED engineVars
    /\ UNCHANGED registryVars
    /\ UNCHANGED craftVars
    /\ UNCHANGED storeVars
    /\ UNCHANGED storeCallVars
    /\ UNCHANGED memoryVars
    /\ UNCHANGED workVars

AnalyzeNext == Analyze

SpecAnalyze == AnalyzeInit /\ [][AnalyzeNext]_vars

Analyzed == analysis # NoAnalysis

(* b holds the entries of a, in some order, each multiplied by c *)
MultipleOf(a, b, c) == Range(b) = {<<e[1], QMul(e[2], c)>> : e \in Range(a)}

CleanEntries(es) == \A e \in Range(es) : QGt(e[2], EPS)

(* C12 as stated: the signature does not depend on the insertion order,    *)
(* and positive scalar multiples have the same signature, whatever the     *)
(* mixtures hold.                                                          *)
C12_AnyMultipleSameSignature ==
    Analyzed =>
        \A c \in AnalyzerScales :
            MultipleOf(sample.a, sample.b, c) => analysis.a.signature = analysis.b.signature

(* C12: the signature does not depend on the order in which the entries    *)
(* were inserted, and two mixtures that are positive scalar multiples of   *)
(* each other and hold no entry at or below EPS have the same signature.   *)
C12_SignatureStable ==
    Analyzed =>
        \A c \in AnalyzerScales :
            (/\ MultipleOf(sample.a, sample.b, c)
             /\ c = One \/ (CleanEntries(sample.a) /\ CleanEntries(sample.b)))
                => analysis.a.signature = analysis.b.signature

(* Three entries inserted out of collation order, analyzed again in        *)
(* another order and at twice the quantities.                              *)
C12_Witness ==
    /\ Analyzed
    /\ Len(sample.a) = 3
    /\ sample.a[1][1] = "H2O"
    /\ sample.b[1][1] = "GLU"
    /\ CleanEntries(sample.a) /\ CleanEntries(sample.b)
    /\ MultipleOf(sample.a, sample.b, Two)
    /\ analysis.a.signature = analysis.b.signature
    /\ analysis.a.signature = "FRUCT:0.040|GLU:0.040|H2O:0.920"

(* C13: each primitive tag is among the tags of analyzeMix exactly when    *)
(* the normalized proportions of its substance group sum to more than      *)
(* 0.05.                                                                   *)
C13_TagIffGroupShare ==
    Analyzed =>
        \A i \in DOMAIN TagGroups :
            (TagGroups[i].tag \in Range(analysis.a.tags))
                <=> QGt(proportion(sample.a, TagGroups[i].keys), TAG_THRESHOLD)

(* The entries of es above EPS, as a set *)
KeptEntries(es) == {e \in Range(es) : QGt(e[2], EPS)}

RECURSIVE SumOfEntries(_)
SumOfEntries(set) ==
    IF set = {} THEN Zero
    ELSE LET e == CHOOSE x \in set : TRUE
         IN  QAdd(e[2], SumOfEntries(set \ {e}))

(* C23: normalizeMix drops every entry whose quantity is at most EPS and   *)
(* divides the remaining quantities by their sum: the result is empty when *)
(* that sum is zero and otherwise has only positive entries that sum to 1; *)
(* the signature of a mixture that normalizes to empty is 'empty'.         *)
C23_NormalizedEmptyOrUnit ==
    Analyzed =>
        LET normalized == normalizeMix(sample.a)
            kept == KeptEntries(sample.a)
        IN  /\ EntryKeys(normalized) = {e[1] : e \in kept}
            /\ \A e \in kept :
                    <<e[1], QDiv(e[2], SumOfEntries(kept))>> \in Range(normalized)
            /\ Len(normalized) = 0 <=> SumOfEntries(kept) = Zero
            /\ Len(normalized) > 0 =>
                    /\ \A e \in Range(normalized) : QGt(e[2], Zero)
                    /\ SumOfEntries(Range(normalized)) = One
            /\ Len(normalized) = 0 <=> analysis.a.signature = "empty"

(* Three entries of which one is at EPS: it is dropped and the other two   *)
(* are rescaled to sum to 1.                                               *)
C23_Witness ==
    /\ Analyzed
    /\ sample.a = <<<<"H2O", EPS>>, <<"GLU", <<1, 100>>>>, <<"FRUCT", <<23, 100>>>>>>
    /\ normalizeMix(sample.a) = <<<<"GLU", <<1, 24>>>>, <<"FRUCT", <<23, 24>>>>>>
    /\ analysis.a.signature = "FRUCT:0.958|GLU:0.042"

(* The name-giving tags from the highest priority down, each with the     *)
(* names it gives                                                          *)
NamePriority ==
    <<[tag |-> "ore",
       names |-> {"Minério de Ferro", "Minério de Cobre", "Minério de Estanho",
                  "Minério de Ouro", "Minério"}],
      [tag |-> "wood", names |-> {"Madeira"}],
      [tag |-> "stone", names |-> {"Pedra"}],
      [tag |-> "drink", names |-> {"Água", "Bebida"}],
      [tag |-> "food", names |-> {"Comida"}],
      [tag |-> "fuel", names |-> {"Combustível"}]>>

(* The ORE_ entries of the normalized mixture that no other ORE_ entry     *)
(* exceeds                                                                 *)
LargestOres(es) ==
    LET ores == {e \in Range(normalizeMix(es)) : e[1] \in OreKeys}
    IN  {e[1] : e \in {x \in ores : \A other \in ores : QGe(x[2], other[2])}}

(* C24: the canonical name follows the priority ore, wood, stone, drink,   *)
(* food, fuel: it is a name of the first of these tags the mixture has,    *)
(* the ore name being that of a largest ORE_ substance, and it is          *)
(* 'Material' when the mixture has none of these tags.                     *)
C24_NameOfHighestPriorityTag ==
    Analyzed =>
        LET tags == Range(analysis.a.tags)
            name == analysis.a.canonicalName
        IN  /\ \A i \in DOMAIN NamePriority :
                    (/\ NamePriority[i].tag \in tags
                     /\ \A j \in 1..(i - 1) : NamePriority[j].tag \notin tags)
                        => name \in NamePriority[i].names
            /\ (\A i \in DOMAIN NamePriority : NamePriority[i].tag \notin tags)
                    => name = "Material"
            /\ "ore" \in tags =>
                    \E k \in LargestOres(sample.a) :
                        name = IF k = "ORE_FE" THEN "Minério de Ferro"
                               ELSE IF k = "ORE_CU" THEN "Minério de Cobre"
                               ELSE IF k = "ORE_SN" THEN "Minério de Estanho"
                               ELSE IF k = "ORE_AU" THEN "Minério de Ouro"
                               ELSE "Minério"

(* A mixture with all six name-giving tags whose largest ore is copper *)
C24_Witness ==
    /\ Analyzed
    /\ {"ore", "wood", "stone", "drink", "food", "fuel"} \subseteq Range(analysis.a.tags)
    /\ LargestOres(sample.a) = {"ORE_CU"}
    /\ sample.a[1][1] = "CARBON"
    /\ analysis.a.canonicalName = "Minério de Cobre"

(* C25: for the mixture {H2O: 1}, analyzeMix gives the signature          *)
(* "H2O:1.000", tags that include 'drink', and the canonical name 'Água'.  *)
C25_WaterScenario ==
    (Analyzed /\ sample.a = <<<<"H2O", One>>>>) =>
        /\ analysis.a.signature = "H2O:1.000"
        /\ "drink" \in Range(analysis.a.tags)
        /\ analysis.a.canonicalName = "Água"

(* {H2O: 1} analyzed: one tag, all of it hydration *)
C25_Witness ==
    /\ Analyzed
    /\ sample.a = <<<<"H2O", One>>>>
    /\ analysis.a.tags = <<"drink">>
    /\ analysis.a.traits.hydration = One
    /\ analysis.a.displayName = "Água"

-----------------------------------------------------------------------------
(* The traits as a JavaScript engine computes them: every number is an     *)
(* IEEE-754 binary64 value, every sum and quotient is rounded to nearest,  *)
(* ties to even.  A positive value is m * 2^e with 2^52 <= m < 2^53; the   *)
(* 53-bit m is kept as <<hi, lo>> = hi * 2^27 + lo.                         *)

Limb == 2 ^ 27

BigDouble(x) == <<2 * x[1] + (2 * x[2]) \div Limb, (2 * x[2]) % Limb>>

BigHalf(x) == <<x[1] \div 2, (x[1] % 2) * (Limb \div 2) + x[2] \div 2>>

BigOdd(x) == x[2] % 2 = 1

BigLt(x, y) == x[1] < y[1] \/ (x[1] = y[1] /\ x[2] < y[2])

BigAdd(x, y) == <<x[1] + y[1] + (x[2] + y[2]) \div Limb, (x[2] + y[2]) % Limb>>

(* x - y for x >= y *)
BigSub(x, y) ==
    IF x[2] >= y[2] THEN <<x[1] - y[1], x[2] - y[2]>>
    ELSE <<x[1] - y[1] - 1, x[2] + Limb - y[2]>>

TwoTo52 == <<2 ^ 25, 0>>

TwoTo53 == <<2 ^ 26, 0>>

Zero64 == [m |-> <<0, 0>>, e |-> 0]

(* m, with a half-unit bit and a sticky bit below it, rounded to nearest   *)
(* even at exponent e                                                      *)
roundEven(m, guard, sticky, e) ==
    LET up == guard /\ (sticky \/ BigOdd(m))
        rounded == IF up THEN BigAdd(m, <<0, 1>>) ELSE m
    IN  IF rounded = TwoTo53 THEN [m |-> TwoTo52, e |-> e + 1] ELSE [m |-> rounded, e |-> e]

(* m * 2^k for the k that brings m into 2^52 .. 2^53 - 1, for             *)
(* 0 < m < 2^53: a first shift that fills the high limb, then the rest     *)
scaleUp(m, e) ==
    LET first == IF m[1] # 0 THEN 0 ELSE IF m[2] < 2 ^ 26 THEN 27 ELSE 26
        whole == IF first = 0 THEN m
                 ELSE IF first = 27 THEN <<m[2], 0>>
                 ELSE <<m[2] \div 2, (m[2] % 2) * 2 ^ 26>>
        k == CHOOSE n \in 0..26 : 2 ^ 25 <= whole[1] * 2 ^ n /\ whole[1] * 2 ^ n < 2 ^ 26
    IN  [m |-> <<whole[1] * 2 ^ k + whole[2] \div 2 ^ (27 - k),
                 (whole[2] % 2 ^ (27 - k)) * 2 ^ k>>,
         e |-> e - k - first]

(* The binary64 value of a positive integer *)
fromInt(n) == scaleUp(<<n \div Limb, n % Limb>>, 0)

Lt64(x, y) ==
    IF y = Zero64 THEN FALSE
    ELSE IF x = Zero64 THEN TRUE
    ELSE x.e < y.e \/ (x.e = y.e /\ BigLt(x.m, y.m))

Gt64(x, y) == Lt64(y, x)

Le64(x, y) == ~Lt64(y, x)

(* n quotient bits of r / d, most significant first, appended to q; what  *)
(* is left is the remainder, doubled                                       *)
RECURSIVE divBits(_, _, _, _)
divBits(q, r, d, n) ==
    IF n = 0 THEN [q |-> q, r |-> r]
    ELSE IF n = 1
    THEN LET bit == ~BigLt(r, d)
         IN  [q |-> BigAdd(BigDouble(q), <<0, IF bit THEN 1 ELSE 0>>),
              r |-> BigDouble(IF bit THEN BigSub(r, d) ELSE r)]
    ELSE CHOOSE result \in
            {divBits(first.q, first.r, d, n - n \div 2) :
                first \in {divBits(q, r, d, n \div 2)}} : TRUE

(* x / y for positive x and y *)
Div64(x, y) ==
    LET n == IF BigLt(x.m, y.m) THEN 54 ELSE 53
        qr == CHOOSE v \in {divBits(<<0, 0>>, x.m, y.m, n)} : TRUE
    IN  roundEven(qr.q, ~BigLt(qr.r, y.m), BigLt(y.m, qr.r) , x.e - y.e - (n - 1))

(* m shifted right by d bits, with the last bit shifted out and whether    *)
(* any bit below it was set                                                *)
shiftRight(m, d) ==
    IF d = 0 THEN [m |-> m, guard |-> FALSE, sticky |-> FALSE]
    ELSE IF d <= 27
    THEN [m |-> <<m[1] \div 2 ^ d, (m[1] % 2 ^ d) * 2 ^ (27 - d) + m[2] \div 2 ^ d>>,
          guard |-> (m[2] \div 2 ^ (d - 1)) % 2 = 1,
          sticky |-> m[2] % 2 ^ (d - 1) # 0]
    ELSE IF d <= 54
    THEN [m |-> <<0, m[1] \div 2 ^ (d - 27)>>,
          guard |-> (m[1] \div 2 ^ (d - 28)) % 2 = 1,
          sticky |-> m[1] % 2 ^ (d - 28) # 0 \/ m[2] # 0]
    ELSE [m |-> <<0, 0>>, guard |-> FALSE, sticky |-> TRUE]

(* x + y for x and y positive or zero *)
Add64(x, y) ==
    IF x = Zero64 THEN y
    ELSE IF y = Zero64 THEN x
    ELSE LET a == IF x.e >= y.e THEN x ELSE y
             b == IF x.e >= y.e THEN y ELSE x
             low == CHOOSE v \in {shiftRight(b.m, a.e - b.e)} : TRUE
             sum == BigAdd(a.m, low.m)
         IN  IF BigLt(sum, TwoTo53) THEN roundEven(sum, low.guard, low.sticky, a.e)
             ELSE roundEven(BigHalf(sum), BigOdd(sum), low.guard \/ low.sticky, a.e + 1)

(* The binary64 value of the literal n/d: exact integers, correctly        *)
(* rounded quotient                                                        *)
toDouble(q) ==
    IF q[1] = 0 THEN Zero64
    ELSE IF q[2] = 1 THEN fromInt(q[1])
    ELSE Div64(fromInt(q[1]), fromInt(q[2]))

EPS64 == toDouble(EPS)

One64 == fromInt(1)

(* The entries of a mixture with their quantities as binary64 values *)
RECURSIVE entries64(_, _)
entries64(es, i) ==
    IF i > Len(es) THEN <<>>
    ELSE <<<<es[i][1], toDouble(es[i][2])>>>> \o entries64(es, i + 1)

RECURSIVE filter64(_, _)
filter64(ds, i) ==
    IF i > Len(ds) THEN <<>>
    ELSE (IF Gt64(ds[i][2], EPS64) THEN <<ds[i]>> ELSE <<>>) \o filter64(ds, i + 1)

(* Object.values(mix).reduce((acc, v) => acc + v, 0) *)
RECURSIVE total64(_, _, _)
total64(ds, i, acc) ==
    IF i > Len(ds) THEN acc
    ELSE CHOOSE r \in {total64(ds, i + 1, v) : v \in {Add64(acc, ds[i][2])}} : TRUE

RECURSIVE divide64(_, _, _)
divide64(ds, total, i) ==
    IF i > Len(ds) THEN <<>>
    ELSE <<<<ds[i][1], Div64(ds[i][2], total)>>>> \o divide64(ds, total, i + 1)

normalizeMix64(ds) ==
    LET filtered == CHOOSE f \in {filter64(ds, 1)} : TRUE
        total == CHOOSE t \in {total64(filtered, 1, Zero64)} : TRUE
    IN  IF Le64(total, EPS64) THEN <<>> ELSE divide64(filtered, total, 1)

(* normalized[key] ?? 0 *)
get64(ds, key) ==
    IF \E i \in DOMAIN ds : ds[i][1] = key
    THEN ds[CHOOSE i \in DOMAIN ds : ds[i][1] = key][2]
    ELSE Zero64

RECURSIVE sumKeys64(_, _, _, _)
sumKeys64(normalized, keys, i, acc) ==
    IF i > Len(keys) THEN acc
    ELSE CHOOSE r \in {sumKeys64(normalized, keys, i + 1, v) :
                          v \in {Add64(acc, get64(normalized, keys[i]))}} : TRUE

(* The sum held at 1. *)
proportion64_clamped(ds, keys) ==
    LET sum == sumKeys64(normalizeMix64(ds), keys, 1, Zero64)
    IN  IF Gt64(sum, One64) THEN One64 ELSE sum

(* keys.reduce((acc, key) => acc + (normalized[key] ?? 0), 0) on normalizeMix(mix) *)
proportion64(ds, keys) == sumKeys64(normalizeMix64(ds), keys, 1, Zero64)

(* The traits of analyzeMix(mix), ds being the entries of mix *)
traits64(ds) ==
    LET normalized == CHOOSE n \in {normalizeMix64(ds)} : TRUE
        oxidizingPower == proportion64(normalized, <<"OXIDIZER">>)
        acidityPotential == proportion64(normalized, <<"PH_ACID">>)
        basicityPotential == proportion64(normalized, <<"PH_BASE">>)
        chelatingPower == proportion64(normalized, <<"CHELATOR">>)
        osmoticLoad == proportion64(normalized, <<"SALT">>)
    IN  [hydration |-> proportion64(normalized, <<"H2O">>),
         calories |-> proportion64(normalized, <<"GLU", "FRUCT", "FAT", "PROTEIN">>),
         bitterness |-> proportion64(normalized, <<"AMARGO">>),
         umami |-> proportion64(normalized, <<"UMAMI">>),
         mineralness |-> proportion64(normalized, <<"SILICA", "MINERAL_DUST", "SALT", "SLAG">>),
         metalness |-> proportion64(normalized, <<"IRON", "FE", "CU", "SN", "AU", "ORE_FE",
                                                  "ORE_CU", "ORE_SN", "ORE_AU", "ORE_COAL">>),
         oxidizingPower |-> oxidizingPower,
         acidityPotential |-> acidityPotential,
         basicityPotential |-> basicityPotential,
         chelatingPower |-> chelatingPower,
         bufferingPower |-> proportion64(normalized, <<"PH_BUFFER">>),
         osmoticLoad |-> osmoticLoad,
         reactivity |-> Add64(Add64(Add64(Add64(oxidizingPower, acidityPotential),
                                          basicityPotential),
                                    chelatingPower),
                              osmoticLoad)]

(* Mixtures of the calorie group with whole quantities, a substance with   *)
(* quantity 0 being absent                                                 *)
CalorieKeys == <<"GLU", "FRUCT", "FAT">>

CalorieQuantities == {Q(n, 1) : n \in 0..5}

CalorieLists ==
    {EntriesFrom(CalorieKeys, q, 1) : q \in [DOMAIN CalorieKeys -> CalorieQuantities]}

TraitsInit ==
    /\ \E es \in CalorieLists : sample = [a |-> es, b |-> es]
    /\ analysis = NoAnalysis
    /\ EngineIdle
    /\ RegistryIdle
    /\ CraftIdle
    /\ StoreIdle
    /\ StoreCallIdle
    /\ MemoryIdle
    /\ WorkIdle

AnalyzeTraits ==
    /\ analysis = NoAnalysis
    /\ analysis' = [traits |-> traits64(entries64(sample.a, 1))]
    /\ UNCHANGED sample
    /\ UNCHANGED engineVars
    /\ UNCHANGED registryVars
    /\ UNCHANGED craftVars
    /\ UNCHANGED storeVars
    /\ UNCHANGED storeCallVars
    /\ UNCHANGED memoryVars
    /\ UNCHANGED workVars

TraitsNext == AnalyzeTraits

SpecTraits == TraitsInit /\ [][TraitsNext]_vars

(* C26: the traits of analyzeMix are not clamped and can exceed 1: for the *)
(* mixture {GLU: 1, FRUCT: 4, FAT: 1}, wholly within the calorie group,    *)
(* the calories trait that analyzeMix returns is greater than 1.           *)
C26_CaloriesAboveOne ==
    (Analyzed /\ sample.a = <<<<"GLU", One>>, <<"FRUCT", <<4, 1>>>>, <<"FAT", One>>>>)
        => Gt64(analysis.traits.calories, One64)

(* The same mixture analyzed: calories is the binary64 value next above 1, *)
(* 1 + 2^-52, the rounding of the three shares having added up.           *)
C26_Witness ==
    /\ Analyzed
    /\ sample.a = <<<<"GLU", One>>, <<"FRUCT", <<4, 1>>>>, <<"FAT", One>>>>
    /\ analysis.traits.calories = [m |-> <<2 ^ 25, 1>>, e |-> -52]

-----------------------------------------------------------------------------
(* The forge scenario on the crafting pipeline *)

Forged(c) ==
    /\ c.op = "craftOnce"
    /\ c.inputs = ForgeInputs
    /\ c.process = "forge"
    /\ c.reactions = flattenReactions(REACTIONS_LIBRARY)

(* C22: crafting the inputs {ORE_FE: 1} and {CARBON: 0.5} with the forge   *)
(* preset and the engine's reaction library consumes ORE_FE and CARBON,    *)
(* the result holding strictly less of each than the combined input        *)
(* mixture, and the metalness trait of the result is greater than 0.       *)
C22_ForgeConsumesOreAndCarbon ==
    \A n \in DOMAIN craft :
        Forged(craft[n]) =>
            /\ QLt(mixGet(craft[n].mix, "ORE_FE"), mixGet(craft[n].combined, "ORE_FE"))
            /\ QLt(mixGet(craft[n].mix, "CARBON"), mixGet(craft[n].combined, "CARBON"))
            /\ QGt(analyzeMix(entriesOf(craft[n].mix)).traits.metalness, Zero)

-----------------------------------------------------------------------------
(* Stockpile helpers (world/stockpile) and inventory helpers               *)
(* (world/inventory).  The seller index that the inventory helpers notify  *)
(* is outside the model.                                                   *)

(* stock[itemId] ?? 0, inventory.get(itemId) || 0 *)
quantityIn(store, itemId) == IF itemId \in DOMAIN store THEN store[itemId] ELSE 0

StorePut(store, itemId, qty) ==
    [k \in DOMAIN store \cup {itemId} |-> IF k = itemId THEN qty ELSE store[k]]

StoreDelete(store, itemId) == [k \in DOMAIN store \ {itemId} |-> store[k]]

stockHas(stock, itemId, qty) == quantityIn(stock, itemId) >= qty

stockAdd(stock, itemId, qty) ==
    IF qty <= 0 THEN stock ELSE StorePut(stock, itemId, quantityIn(stock, itemId) + qty)

(* stockRemove that stores the remainder whatever it is: a zero entry stays. *)
stockRemove_keepsZero(stock, itemId, qty) ==
    IF ~stockHas(stock, itemId, qty) THEN [ok |-> FALSE, stock |-> stock]
    ELSE [ok |-> TRUE, stock |-> StorePut(stock, itemId, quantityIn(stock, itemId) - qty)]

(* stockRemove: the flag it returns and the stockpile it leaves *)
stockRemove(stock, itemId, qty) ==
    IF ~stockHas(stock, itemId, qty) THEN [ok |-> FALSE, stock |-> stock]
    ELSE LET next == quantityIn(stock, itemId) - qty
         IN  [ok |-> TRUE,
              stock |-> IF next <= 0 THEN StoreDelete(stock, itemId)
                        ELSE StorePut(stock, itemId, next)]

(* ensureInventory: an entity without inventory gets an empty Map *)
ensureInventory(inv) == IF inv = None THEN Some(NoStore) ELSE inv

inventoryGet(inv, itemId) == IF inv = None THEN 0 ELSE quantityIn(inv[1], itemId)

inventoryHas(inv, itemId, quantity) == inventoryGet(inv, itemId) >= quantity

inventoryAdd(inv, itemId, quantity) ==
    IF quantity <= 0 THEN inv
    ELSE LET map == ensureInventory(inv)[1]
         IN  Some(StorePut(map, itemId, quantityIn(map, itemId) + quantity))

(* inventoryRemove: the flag it returns and the inventory it leaves *)
inventoryRemove(inv, itemId, quantity) ==
    IF quantity <= 0 THEN [ok |-> TRUE, inventory |-> inv]
    ELSE LET map == ensureInventory(inv)[1]
             oldQuantity == quantityIn(map, itemId)
             newQuantity == oldQuantity - quantity
         IN  IF oldQuantity < quantity THEN [ok |-> FALSE, inventory |-> Some(map)]
             ELSE [ok |-> TRUE,
                   inventory |-> Some(IF newQuantity = 0 THEN StoreDelete(map, itemId)
                                      ELSE StorePut(map, itemId, newQuantity))]

-----------------------------------------------------------------------------
(* The helpers called on one stockpile and one inventory, both empty at    *)
(* first.                                                                  *)

StoreItemIds == {"raw-salt", "raw-water"}

(* The callers pass 1, or a transfer quantity of 1 to 3; 0 is the edge. *)
StoreQuantities == 0..3

Stores == [inventory |-> inventory, stockpile |-> stockpile]

StoreCalled(op, itemId, qty, ok) ==
    /\ storeCall' = [op |-> op, itemId |-> itemId, qty |-> qty, returned |-> ok,
                     before |-> Stores]
    /\ nStoreCalls' = nStoreCalls + 1

StoreInit ==
    /\ inventory = NoInventory
    /\ stockpile = NoStore
    /\ storeCall = NoStoreCall
    /\ nStoreCalls = 0
    /\ EngineIdle
    /\ RegistryIdle
    /\ CraftIdle
    /\ AnalyzerIdle
    /\ MemoryIdle
    /\ WorkIdle

StoreFrame ==
    /\ UNCHANGED engineVars
    /\ UNCHANGED registryVars
    /\ UNCHANGED craftVars
    /\ UNCHANGED analyzerVars
    /\ UNCHANGED memoryVars
    /\ UNCHANGED workVars

StockAdd ==
    /\ nStoreCalls < MaxStoreCalls
    /\ \E itemId \in StoreItemIds, qty \in StoreQuantities :
        /\ stockpile' = stockAdd(stockpile, itemId, qty)
        /\ StoreCalled("stockAdd", itemId, qty, TRUE)
    /\ UNCHANGED inventory
    /\ StoreFrame

StockRemove ==
    /\ nStoreCalls < MaxStoreCalls
    /\ \E itemId \in StoreItemIds, qty \in StoreQuantities :
        \E r \in {stockRemove(stockpile, itemId, qty)} :
            /\ stockpile' = r.stock
            /\ StoreCalled("stockRemove", itemId, qty, r.ok)
    /\ UNCHANGED inventory
    /\ StoreFrame

InventoryAdd ==
    /\ nStoreCalls < MaxStoreCalls
    /\ \E itemId \in StoreItemIds, qty \in StoreQuantities :
        /\ inventory' = inventoryAdd(inventory, itemId, qty)
        /\ StoreCalled("inventoryAdd", itemId, qty, TRUE)
    /\ UNCHANGED stockpile
    /\ StoreFrame

InventoryRemove ==
    /\ nStoreCalls < MaxStoreCalls
    /\ \E itemId \in StoreItemIds, qty \in StoreQuantities :
        \E r \in {inventoryRemove(inventory, itemId, qty)} :
            /\ inventory' = r.inventory
            /\ StoreCalled("inventoryRemove", itemId, qty, r.ok)
    /\ UNCHANGED stockpile
    /\ StoreFrame

StoreNext == StockAdd \/ StockRemove \/ InventoryAdd \/ InventoryRemove

SpecStore == StoreInit /\ [][StoreNext]_vars

(* What an inventory holds: nothing when the entity has no Map yet *)
Holdings(inv) == IF inv = None THEN NoStore ELSE inv[1]

(* The store the call was about, before and after it *)
RemovedFrom(c, now) ==
    IF c.op = "stockRemove"
    THEN [before |-> c.before.stockpile, after |-> now.stockpile]
    ELSE [before |-> Holdings(c.before.inventory), after |-> Holdings(now.inventory)]

(* C20: a stockRemove or inventoryRemove that returns false leaves the     *)
(* stockpile or inventory holding what it held; one that returns true has  *)
(* lowered the quantity of the item by exactly the requested amount, the   *)
(* entry being gone when it reached zero, and has touched no other entry.  *)
C20_RemoveAllOrNothing ==
    storeCall.op \in {"stockRemove", "inventoryRemove"} =>
        LET s == RemovedFrom(storeCall, Stores)
            id == storeCall.itemId
        IN  IF storeCall.returned
            THEN /\ quantityIn(s.after, id) = quantityIn(s.before, id) - storeCall.qty
                 /\ quantityIn(s.after, id) = 0 <=> id \notin DOMAIN s.after
                 /\ \A k \in (DOMAIN s.before \cup DOMAIN s.after) \ {id} :
                        k \in DOMAIN s.before /\ k \in DOMAIN s.after /\ s.after[k] = s.before[k]
            ELSE /\ s.after = s.before
                 /\ quantityIn(s.before, id) < storeCall.qty

(* Both outcomes seen on a store that held the item: a removal of the      *)
(* whole quantity that deleted the entry.                                  *)
C20_Witness ==
    /\ storeCall.op \in {"stockRemove", "inventoryRemove"}
    /\ storeCall.returned
    /\ storeCall.qty > 0
    /\ storeCall.itemId \in DOMAIN RemovedFrom(storeCall, Stores).before
    /\ storeCall.itemId \notin DOMAIN RemovedFrom(storeCall, Stores).after
-----------------------------------------------------------------------------
(* Recipe memory (GameEngine.ts: rememberRecipe, pickLearnedRecipe,        *)
(* matchItemBySignature, countSelection)                                   *)

LearnedRecipe(intent, process, inputSignatures, weights, score) ==
    [intent |-> intent, process |-> process, inputSignatures |-> inputSignatures,
     weights |-> weights, score |-> score]

(* input.signature ?? mixSignature(input.mix): an ItemDefinition of        *)
(* world/items.ts carries no signature, so the mixture is always signed.   *)
signatureOfItem(definition) == mixSignature(entriesOf(definition.mix))

(* inputs.map((input) => input.signature ?? mixSignature(input.mix)) *)
RECURSIVE signaturesOfInputs(_, _)
signaturesOfInputs(inputs, i) ==
    IF i > Len(inputs) THEN <<>>
    ELSE <<signatureOfItem(inputs[i])>> \o signaturesOfInputs(inputs, i + 1)

(* The entry test of rememberRecipe's find: same intent, same process,     *)
(* same signatures slot by slot.                                           *)
sameRecipe(recipe, intent, process, inputSignatures) ==
    /\ recipe.intent = intent
    /\ recipe.process = process
    /\ Len(recipe.inputSignatures) = Len(inputSignatures)
    /\ \A idx \in DOMAIN recipe.inputSignatures :
           recipe.inputSignatures[idx] = inputSignatures[idx]

(* Array.prototype.find as an index: the first matching entry, 0 for none *)
findRecipe(list, intent, process, inputSignatures) ==
    LET hits == {i \in DOMAIN list : sameRecipe(list[i], intent, process, inputSignatures)}
    IN  IF hits = {} THEN 0 ELSE CHOOSE i \in hits : \A j \in hits : i <= j

learnedList(learned) == IF learned = None THEN <<>> ELSE learned[1]

(* The entry pushed without looking for an existing one. *)
rememberRecipe_pushesAlways(learned, intent, process, inputs, weights, score) ==
    Some(Append(learnedList(learned),
                LearnedRecipe(intent, process, signaturesOfInputs(inputs, 1), weights, score)))

(* An upsert that takes the new score and weights whatever the old score. *)
rememberRecipe_overwrites(learned, intent, process, inputs, weights, score) ==
    LET inputSignatures == signaturesOfInputs(inputs, 1)
        list == learnedList(learned)
        existing == findRecipe(list, intent, process, inputSignatures)
    IN  IF existing # 0
        THEN Some([list EXCEPT ![existing].score = score,
                               ![existing].weights = IF weights # None THEN weights ELSE @])
        ELSE Some(Append(list, LearnedRecipe(intent, process, inputSignatures, weights, score)))

(* rememberRecipe: npc.learnedRecipes after the call *)
rememberRecipe(learned, intent, process, inputs, weights, score) ==
    LET inputSignatures == signaturesOfInputs(inputs, 1)
        list == learnedList(learned)
        existing == findRecipe(list, intent, process, inputSignatures)
    IN  IF existing # 0
        THEN IF QGt(score, list[existing].score)
             THEN Some([list EXCEPT ![existing].score = score,
                                    ![existing].weights = IF weights # None THEN weights ELSE @])
             ELSE Some(list)
        ELSE Some(Append(list, LearnedRecipe(intent, process, inputSignatures, weights, score)))

(* sort((a, b) => b.score - a.score): stable, highest score first *)
RECURSIVE insertByScore(_, _, _)
insertByScore(sorted, recipe, i) ==
    IF i > Len(sorted) THEN Append(sorted, recipe)
    ELSE IF QGt(recipe.score, sorted[i].score)
         THEN SubSeq(sorted, 1, i - 1) \o <<recipe>> \o SubSeq(sorted, i, Len(sorted))
         ELSE insertByScore(sorted, recipe, i + 1)

RECURSIVE sortByScore(_, _, _)
sortByScore(list, i, sorted) ==
    IF i > Len(list) THEN sorted
    ELSE sortByScore(list, i + 1, insertByScore(sorted, list[i], 1))

(* The filtered recipes left in the order they were learned. *)
recallRecipes_unsorted(learned, intent, process) ==
    LET wanted(r) == r.intent = intent /\ r.process = process
    IN  SelectSeq(learnedList(learned), wanted)

(* (npc.learnedRecipes ?? []).filter(...).sort(...): filter builds a new   *)
(* array, which is the one sorted.                                         *)
recallRecipes(learned, intent, process) ==
    LET wanted(r) == r.intent = intent /\ r.process = process
    IN  sortByScore(SelectSeq(learnedList(learned), wanted), 1, <<>>)

Selection(definition, source) == [definition |-> definition, source |-> source]

countSelection(selections, itemId, source) ==
    Cardinality({i \in DOMAIN selections :
                    selections[i].definition.id = itemId /\ selections[i].source = source})

(* The signature of every registered item *)
RECURSIVE signaturesOf(_)
signaturesOf(its) ==
    IF DOMAIN its = {} THEN <<>>
    ELSE LET id == CHOOSE x \in DOMAIN its : TRUE
         IN  (id :> signatureOfItem(its[id])) @@
             signaturesOf([other \in DOMAIN its \ {id} |-> its[other]])

(* matchItemBySignature: the selections random.choice may return, the      *)
(* empty set standing for null.  Inventory holders come first.             *)
matchItemBySignature(its, signatures, inv, stock, signature, selections) ==
    LET candidates == {id \in DOMAIN its : signatures[id] = signature}
        invPool == {id \in candidates :
                       inventoryHas(inv, id, 1 + countSelection(selections, id, "inventory"))}
        stockPool == {id \in candidates :
                         stockHas(stock, id, 1 + countSelection(selections, id, "stockpile"))}
    IN  IF invPool # {} THEN {Selection(its[id], "inventory") : id \in invPool}
        ELSE IF stockPool # {} THEN {Selection(its[id], "stockpile") : id \in stockPool}
        ELSE {}

(* The inner loop of pickLearnedRecipe over one recipe's signatures: every *)
(* way it can end, with the valid flag and the selections made.            *)
RECURSIVE selectLoop(_, _, _, _, _, _, _)
selectLoop(its, signatures, inv, stock, inputSignatures, i, selections) ==
    IF i > Len(inputSignatures) THEN {[valid |-> TRUE, selections |-> selections]}
    ELSE LET matches == matchItemBySignature(its, signatures, inv, stock,
                                             inputSignatures[i], selections)
         IN  IF matches = {} THEN {[valid |-> FALSE, selections |-> selections]}
             ELSE UNION {selectLoop(its, signatures, inv, stock, inputSignatures, i + 1,
                                    Append(selections, match)) : match \in matches}

accepted(outcome) == outcome.valid /\ Len(outcome.selections) >= 2

(* The outer loop: the first recipe whose selections are accepted is       *)
(* returned with its weights; null when the recipes run out.               *)
RECURSIVE recipeLoop(_, _, _, _, _, _)
recipeLoop(its, signatures, inv, stock, recipes, k) ==
    IF k > Len(recipes) THEN {None}
    ELSE LET outcomes == selectLoop(its, signatures, inv, stock,
                                    recipes[k].inputSignatures, 1, <<>>)
         IN  {Some([inputs |-> o.selections, weights |-> recipes[k].weights]) :
                  o \in {o \in outcomes : accepted(o)}}
             \cup (IF \E o \in outcomes : ~accepted(o)
                   THEN recipeLoop(its, signatures, inv, stock, recipes, k + 1)
                   ELSE {})

(* A pickLearnedRecipe whose sort runs on npc.learnedRecipes itself. *)
pickLearnedRecipe_sortsInPlace(its, learned, inv, intent, process, stock) ==
    [returns |-> recipeLoop(its, signaturesOf(its), inv, stock,
                            recallRecipes(learned, intent, process), 1),
     learnedRecipes |-> IF learned = None THEN None
                        ELSE Some(sortByScore(learned[1], 1, <<>>)),
     inventory |-> inv,
     stockpile |-> stock]

(* pickLearnedRecipe: what it may return, and the npc's recipe list and    *)
(* inventory and the stockpile as the call leaves them.                    *)
pickLearnedRecipe(its, learned, inv, intent, process, stock) ==
    [returns |-> recipeLoop(its, signaturesOf(its), inv, stock,
                            recallRecipes(learned, intent, process), 1),
     learnedRecipes |-> learned,
     inventory |-> inv,
     stockpile |-> stock]

-----------------------------------------------------------------------------
(* Recipe memory driven call by call, over the seed registry *)

MemoryIntents == {<<"drink", "brew">>, <<"food", "cook">>}

(* Item lists handed to rememberRecipe: water alone, water and salt, water *)
(* twice.  raw-water and water-flask sign alike.                           *)
MemoryInputIds == {<<"raw-water">>, <<"raw-water", "raw-salt">>, <<"water-flask", "raw-water">>}

(* The weights and score a craft is remembered with: a poor one with      *)
(* weights, a good one with weights, a good one without.                   *)
MemoryGrades ==
    {[weights |-> Some(<<<<7, 10>>, <<3, 10>>>>), score |-> Quarter],
     [weights |-> Some(<<Half, Half>>), score |-> <<3, 4>>],
     [weights |-> None, score |-> <<3, 4>>]}

(* What the npc carries and what the stockpile holds *)
MemoryHoldings ==
    {[inventory |-> Some("raw-water" :> 1), stockpile |-> "water-flask" :> 1],
     [inventory |-> Some(("raw-water" :> 1) @@ ("raw-salt" :> 1)), stockpile |-> NoStore],
     [inventory |-> None, stockpile |-> ("raw-salt" :> 1) @@ ("raw-water" :> 2)]}

MemoryInit ==
    /\ items = createSeedItemRegistry.items
    /\ counter = createSeedItemRegistry.counter
    /\ \E h \in MemoryHoldings :
        /\ inventory = h.inventory
        /\ stockpile = h.stockpile
    /\ MemoryIdle
    /\ WorkIdle
    /\ EngineIdle
    /\ CraftIdle
    /\ AnalyzerIdle
    /\ StoreCallIdle

MemoryFrame ==
    /\ UNCHANGED workVars
    /\ UNCHANGED engineVars
    /\ UNCHANGED registryVars
    /\ UNCHANGED craftVars
    /\ UNCHANGED analyzerVars
    /\ UNCHANGED storeCallVars

RememberRecipe ==
    /\ Cardinality(remembered) < MaxRemembers
    /\ \E ip \in MemoryIntents, ids \in MemoryInputIds, grade \in MemoryGrades :
        LET inputs == [i \in DOMAIN ids |-> items[ids[i]]]
            inputSignatures == signaturesOfInputs(inputs, 1)
            weights == grade.weights
            score == grade.score
        IN  /\ learnedRecipes' =
                   rememberRecipe(learnedRecipes, ip[1], ip[2], inputs, weights, score)
            /\ memoryCall' = [op |-> "rememberRecipe", intent |-> ip[1], process |-> ip[2],
                              inputSignatures |-> inputSignatures, weights |-> weights,
                              score |-> score, before |-> learnedRecipes]
            /\ remembered' = remembered \cup
                   {[intent |-> ip[1], process |-> ip[2],
                     inputSignatures |-> inputSignatures, score |-> score,
                     nth |-> Cardinality(remembered) + 1]}
    /\ UNCHANGED storeVars
    /\ MemoryFrame

PickLearnedRecipe ==
    /\ \E ip \in MemoryIntents :
        \E r \in {pickLearnedRecipe(items, learnedRecipes, inventory, ip[1], ip[2], stockpile)} :
            \E result \in r.returns :
                /\ learnedRecipes' = r.learnedRecipes
                /\ inventory' = r.inventory
                /\ stockpile' = r.stockpile
                /\ memoryCall' = [op |-> "pickLearnedRecipe", intent |-> ip[1],
                                  process |-> ip[2], returned |-> result,
                                  before |-> learnedRecipes]
    /\ UNCHANGED remembered
    /\ MemoryFrame

MemoryNext == RememberRecipe \/ PickLearnedRecipe

SpecMemory == MemoryInit /\ [][MemoryNext]_vars

LearnedNow == learnedList(learnedRecipes)

LearnedBefore == learnedList(memoryCall.before)

(* The scores rememberRecipe has been called with for a recipe's key *)
RememberedScores(recipe) ==
    {m.score : m \in {m \in remembered :
                         sameRecipe(recipe, m.intent, m.process, m.inputSignatures)}}

HighestScore(scores) == CHOOSE q \in scores : \A p \in scores : QGe(q, p)

(* The entry the last rememberRecipe call collided with, 0 for none *)
Collided ==
    findRecipe(LearnedBefore, memoryCall.intent, memoryCall.process,
               memoryCall.inputSignatures)

(* C16: after any sequence of rememberRecipe calls every remembered        *)
(* (intent, process, ordered signature list) has one entry, whose score is *)
(* the highest score it was remembered with; a call whose score is lower   *)
(* than or equal to the stored one leaves that entry's score and weights   *)
(* as they were.                                                           *)
C16_StoredScoreIsMax ==
    /\ \A i \in DOMAIN LearnedNow :
           /\ RememberedScores(LearnedNow[i]) # {}
           /\ LearnedNow[i].score = HighestScore(RememberedScores(LearnedNow[i]))
           /\ \A j \in DOMAIN LearnedNow :
                  sameRecipe(LearnedNow[i], LearnedNow[j].intent, LearnedNow[j].process,
                             LearnedNow[j].inputSignatures) => i = j
    /\ \A m \in remembered :
           findRecipe(LearnedNow, m.intent, m.process, m.inputSignatures) # 0
    /\ (/\ memoryCall.op = "rememberRecipe"
        /\ Collided # 0
        /\ QLe(memoryCall.score, LearnedBefore[Collided].score))
       => LearnedNow = LearnedBefore

(* A duplicate with a lower score and other weights was remembered, and    *)
(* the entry kept the higher score.                                        *)
C16_Witness ==
    /\ memoryCall.op = "rememberRecipe"
    /\ Collided # 0
    /\ QLt(memoryCall.score, LearnedBefore[Collided].score)
    /\ memoryCall.weights # LearnedBefore[Collided].weights
    /\ LearnedNow[Collided].score = LearnedBefore[Collided].score

(* The (intent, process, ordered signature list) of a learned recipe *)
RecipeKey(recipe) == <<recipe.intent, recipe.process, recipe.inputSignatures>>

(* C30: after any sequence of rememberRecipe calls the learned-recipe list *)
(* holds at most one entry for each (intent, process, ordered signature    *)
(* list), and it never shrinks: every entry stays, at its place, under its *)
(* key.                                                                    *)
C30_OneEntryPerKeyNeverRemoved ==
    [][LET before == learnedList(learnedRecipes)
           after == learnedList(learnedRecipes')
       IN  /\ Len(after) >= Len(before)
           /\ \A i \in DOMAIN before : RecipeKey(after[i]) = RecipeKey(before[i])
           /\ \A i \in DOMAIN after, j \in DOMAIN after :
                    RecipeKey(after[i]) = RecipeKey(after[j]) => i = j]_vars

(* A recipe remembered a second time with a higher score: still one entry, *)
(* now with that score.                                                    *)
C30_Witness ==
    /\ memoryCall.op = "rememberRecipe"
    /\ Cardinality(remembered) = 2
    /\ Len(LearnedBefore) = 1
    /\ Len(LearnedNow) = 1
    /\ RecipeKey(LearnedNow[1]) = RecipeKey(LearnedBefore[1])
    /\ QGt(LearnedNow[1].score, LearnedBefore[1].score)

(* C17: when a remembered recipe collides with a stored one, the entry     *)
(* afterwards holds the weights of whichever has the higher score, absent  *)
(* weights included; on equal scores either one's.                         *)
C17_WeightsOfHigherScore ==
    (memoryCall.op = "rememberRecipe" /\ Collided # 0) =>
        LET old == LearnedBefore[Collided]
            now == LearnedNow[Collided]
        IN  /\ QGt(memoryCall.score, old.score) => now.weights = memoryCall.weights
            /\ QLt(memoryCall.score, old.score) => now.weights = old.weights
            /\ memoryCall.score = old.score => now.weights \in {old.weights, memoryCall.weights}

RECURSIVE unitsOf(_, _, _)
unitsOf(ids, inv, stock) ==
    IF ids = {} THEN 0
    ELSE LET id == CHOOSE x \in ids : TRUE
         IN  inventoryGet(inv, id) + quantityIn(stock, id) + unitsOf(ids \ {id}, inv, stock)

(* Units held, in the inventory and the stockpile together, of the items   *)
(* bearing a signature                                                     *)
UnitsHeld(signature) ==
    unitsOf({id \in DOMAIN items : signatureOfItem(items[id]) = signature},
            inventory, stockpile)

(* Every slot of the recipe can be given a unit of its own *)
Satisfiable(recipe) ==
    \A signature \in Range(recipe.inputSignatures) :
        Cardinality({i \in DOMAIN recipe.inputSignatures :
                        recipe.inputSignatures[i] = signature}) <= UnitsHeld(signature)

Requested(recipe) == recipe.intent = memoryCall.intent /\ recipe.process = memoryCall.process

(* What a pickLearnedRecipe call returned is the recipe at index i, filled *)
(* slot by slot with units that are there.                                 *)
Fills(got, i) ==
    /\ Len(got.inputs) = Len(LearnedBefore[i].inputSignatures)
    /\ \A k \in DOMAIN got.inputs :
           /\ signatureOfItem(got.inputs[k].definition) = LearnedBefore[i].inputSignatures[k]
           /\ LET id == got.inputs[k].definition.id
                  source == got.inputs[k].source
                  held == IF source = "inventory" THEN inventoryGet(inventory, id)
                          ELSE quantityIn(stockpile, id)
              IN  countSelection(got.inputs, id, source) <= held
    /\ got.weights = LearnedBefore[i].weights

PickedAmong(eligible) ==
    IF memoryCall.returned = None THEN eligible = {}
    ELSE \E i \in eligible :
            /\ Fills(memoryCall.returned[1], i)
            /\ \A j \in eligible : QLe(LearnedBefore[j].score, LearnedBefore[i].score)

(* C19 as stated: pickLearnedRecipe returns a recipe of the requested      *)
(* intent and process whose every slot can be matched, none of the         *)
(* matchable ones scoring higher, and returns none only when no such       *)
(* recipe can be matched.                                                  *)
C19_FirstSatisfiable ==
    memoryCall.op = "pickLearnedRecipe" =>
        PickedAmong({i \in DOMAIN LearnedBefore :
                        Requested(LearnedBefore[i]) /\ Satisfiable(LearnedBefore[i])})

(* C19 amended: the same over the recipes of at least two slots; a recipe  *)
(* of fewer slots is never returned.                                       *)
C19_FirstSatisfiableOfTwoSlots ==
    memoryCall.op = "pickLearnedRecipe" =>
        PickedAmong({i \in DOMAIN LearnedBefore :
                        /\ Requested(LearnedBefore[i])
                        /\ Satisfiable(LearnedBefore[i])
                        /\ Len(LearnedBefore[i].inputSignatures) >= 2})

(* A recipe was returned although a higher-scoring one of the same intent  *)
(* and process was stored: that one could not be matched.                  *)
C19_Witness ==
    /\ memoryCall.op = "pickLearnedRecipe"
    /\ memoryCall.returned # None
    /\ \E i, j \in DOMAIN LearnedBefore :
           /\ Fills(memoryCall.returned[1], i)
           /\ Requested(LearnedBefore[j])
           /\ QGt(LearnedBefore[j].score, LearnedBefore[i].score)
           /\ ~Satisfiable(LearnedBefore[j])
           /\ \E k \in DOMAIN memoryCall.returned[1].inputs :
                  memoryCall.returned[1].inputs[k].source = "stockpile"

-----------------------------------------------------------------------------
(* Work (GameEngine.ts: actionNPCWork and the helpers it calls)            *)

(* The analyzer-derived fields the engine reads on a registered item:      *)
(* item.tags and item.traits are what analyzeMix says of item.mix.         *)
itemTags(definition) == analyzeMix(entriesOf(definition.mix)).tags

(* The traits scoreResult reads, as analyzeMix computes them *)
itemTraits(definition) ==
    LET es == entriesOf(definition.mix)
    IN  [mineralness |-> proportion(es, {"SILICA", "MINERAL_DUST", "SALT", "SLAG"}),
         metalness |-> proportion(es, {"IRON", "FE", "CU", "SN", "AU", "ORE_FE", "ORE_CU",
                                       "ORE_SN", "ORE_AU", "ORE_COAL"}),
         reactivity |->
            QAdd(proportion(es, {"OXIDIZER"}),
                 QAdd(proportion(es, {"PH_ACID"}),
                      QAdd(proportion(es, {"PH_BASE"}),
                           QAdd(proportion(es, {"CHELATOR"}), proportion(es, {"SALT"})))))]

(* itemRegistry.list() with the tags of every item *)
RECURSIVE catalogOf(_)
catalogOf(its) ==
    IF DOMAIN its = {} THEN <<>>
    ELSE LET id == CHOOSE x \in DOMAIN its : TRUE
         IN  (id :> [definition |-> its[id], tags |-> Range(itemTags(its[id]))]) @@
             catalogOf([other \in DOMAIN its \ {id} |-> its[other]])

CraftProfile(intent, process, requiredTags, optionalTags) ==
    [intent |-> intent, process |-> process, requiredTags |-> requiredTags,
     optionalTags |-> optionalTags]

(* getCraftProfileForJob: next1 and next2 are what this.random.next()      *)
(* delivers to the jobs that draw; an absent optionalTags is the empty     *)
(* list its readers replace it with.                                       *)
getCraftProfileForJob(job, next1, next2) ==
    CASE job = "Ferreiro" ->
            Some(CraftProfile(IF QGt(next1, <<3, 5>>) THEN "weapon" ELSE "tool", "forge",
                              <<<<"ore", "metal">>, <<"wood", "organic">>, <<"fuel">>>>, <<>>))
      [] job \in {"Artesão", "Alfaiate", "Construtor"} ->
            Some(CraftProfile(IF QGt(next1, Half) THEN "tool" ELSE "material",
                              IF QGt(next2, <<2, 5>>) THEN "refine" ELSE "cook",
                              <<<<"wood", "organic">>, <<"stone">>>>, <<<<"fuel">>>>))
      [] job = "Agricultor" ->
            Some(CraftProfile("food", "cook", <<<<"food">>>>, <<<<"drink">>>>))
      [] job \in {"Alquimista", "Ervanário"} ->
            Some(CraftProfile(IF QGt(next1, Half) THEN "medicine" ELSE "drink", "brew",
                              <<<<"organic">>, <<"balancing", "stone">>>>,
                              <<<<"ore", "metal">>, <<"drink">>>>))
      [] job = "Minerador" ->
            Some(CraftProfile("material", "refine", <<<<"ore", "stone">>, <<"fuel">>>>,
                              <<<<"wood", "organic">>>>))
      [] OTHER -> None

(* The poi the job works at, none for the jobs that work where they stand *)
requiredPOI(job) ==
    CASE job = "Minerador" -> Some("mine")
      [] job \in {"Caçador", "Pescador", "Agricultor"} -> Some("forest")
      [] job = "Mercador" -> Some("market")
      [] OTHER -> None

(* computeTagQuantity: the units in the stockpile of registered items      *)
(* bearing the tag                                                         *)
RECURSIVE tagQuantityLoop(_, _, _, _)
tagQuantityLoop(stock, catalog, tag, ids) ==
    IF ids = {} THEN 0
    ELSE LET id == CHOOSE x \in ids : TRUE
         IN  (IF id \in DOMAIN catalog /\ tag \in catalog[id].tags THEN stock[id] ELSE 0)
             + tagQuantityLoop(stock, catalog, tag, ids \ {id})

computeTagQuantity(stock, catalog, tag) == tagQuantityLoop(stock, catalog, tag, DOMAIN stock)

TargetStock == 50

(* Math.max(0, Math.min(1, 1 - qty / targetStock)) *)
computeLocalScarcity(stock, catalog, tag) ==
    QMax(Zero, QMin(One, QSub(One, Q(computeTagQuantity(stock, catalog, tag), TargetStock))))

(* The intent a profile ends with once the scarcities are looked at *)
adjustProfile(profile, foodScarcity, drinkScarcity, toolScarcity, materialScarcity) ==
    IF profile.intent = "weapon" /\ QGt(toolScarcity, <<3, 5>>)
    THEN [profile EXCEPT !.intent = "tool"]
    ELSE IF profile.intent \in {"tool", "material"}
    THEN IF QGt(toolScarcity, QAdd(materialScarcity, <<1, 5>>))
         THEN [profile EXCEPT !.intent = "tool"]
         ELSE IF QGt(materialScarcity, QAdd(toolScarcity, <<1, 5>>))
         THEN [profile EXCEPT !.intent = "material"]
         ELSE profile
    ELSE IF /\ profile.intent = "food"
            /\ QGt(drinkScarcity, <<13, 20>>)
            /\ QGt(drinkScarcity, foodScarcity)
    THEN [profile EXCEPT !.intent = "drink", !.process = "brew",
                         !.requiredTags = <<<<"drink">>>>]
    ELSE profile

(* pickIngredient: the selections random.choice may return, the empty set  *)
(* standing for null                                                       *)
pickIngredient(catalog, inv, stock, tagOptions, selections, allowReuse) ==
    LET usedIds == IF allowReuse THEN {}
                   ELSE {selections[i].definition.id : i \in DOMAIN selections}
        matches == {id \in DOMAIN catalog :
                       catalog[id].tags \cap Range(tagOptions) # {} /\ id \notin usedIds}
        invPool == {id \in matches :
                       inventoryHas(inv, id, 1 + countSelection(selections, id, "inventory"))}
        stockPool == {id \in matches :
                         stockHas(stock, id, 1 + countSelection(selections, id, "stockpile"))}
    IN  IF invPool # {} THEN {Selection(catalog[id].definition, "inventory") : id \in invPool}
        ELSE IF stockPool # {}
        THEN {Selection(catalog[id].definition, "stockpile") : id \in stockPool}
        ELSE {}

(* The third loop of acquireInputs: one duplicate when fewer than two      *)
(* ingredients were found, then the length test of the return.             *)
RECURSIVE duplicateLoop(_, _, _, _, _, _)
duplicateLoop(catalog, inv, stock, requiredTags, i, selections) ==
    IF Len(selections) >= 2 THEN {Some(selections)}
    ELSE IF i > Len(requiredTags) THEN {None}
    ELSE LET duplicates == pickIngredient(catalog, inv, stock, requiredTags[i], selections, TRUE)
         IN  IF duplicates = {}
             THEN duplicateLoop(catalog, inv, stock, requiredTags, i + 1, selections)
             ELSE {IF Len(selections) + 1 >= 2 THEN Some(Append(selections, d)) ELSE None :
                      d \in duplicates}

(* The second loop: optional ingredients while fewer than three are held *)
RECURSIVE optionalLoop(_, _, _, _, _, _, _)
optionalLoop(catalog, inv, stock, requiredTags, optionalTags, i, selections) ==
    IF i > Len(optionalTags) \/ Len(selections) >= 3
    THEN duplicateLoop(catalog, inv, stock, requiredTags, 1, selections)
    ELSE LET choices == pickIngredient(catalog, inv, stock, optionalTags[i], selections, FALSE)
         IN  IF choices = {}
             THEN optionalLoop(catalog, inv, stock, requiredTags, optionalTags, i + 1,
                               selections)
             ELSE UNION {optionalLoop(catalog, inv, stock, requiredTags, optionalTags, i + 1,
                                      Append(selections, c)) : c \in choices}

(* The first loop: one ingredient per required tag list, or null *)
RECURSIVE requiredLoop(_, _, _, _, _, _, _)
requiredLoop(catalog, inv, stock, requiredTags, optionalTags, i, selections) ==
    IF i > Len(requiredTags)
    THEN optionalLoop(catalog, inv, stock, requiredTags, optionalTags, 1, selections)
    ELSE LET choices == pickIngredient(catalog, inv, stock, requiredTags[i], selections, FALSE)
         IN  IF choices = {} THEN {None}
             ELSE UNION {requiredLoop(catalog, inv, stock, requiredTags, optionalTags, i + 1,
                                      Append(selections, c)) : c \in choices}

(* acquireInputs: every list of selections it may return, None for null *)
acquireInputs(catalog, inv, requiredTags, optionalTags, stock) ==
    requiredLoop(catalog, inv, stock, requiredTags, optionalTags, 1, <<>>)

(* tags.flat() *)
RECURSIVE flat(_, _)
flat(lists, i) == IF i > Len(lists) THEN <<>> ELSE lists[i] \o flat(lists, i + 1)

(* stockPickByTag: the items random.choice may return, the empty set for null *)
stockPickByTag(stock, catalog, tag) ==
    {id \in DOMAIN catalog : tag \in catalog[id].tags /\ stockHas(stock, id, 1)}

(* collectFromStockpile: the inventory and stockpile it may leave *)
collectFromStockpile(catalog, inv, tags, stock) ==
    UNION {LET picked == stockPickByTag(stock, catalog, tag)
           IN  IF picked = {}
               THEN {[inventory |-> inv, stockpile |-> stock, collected |-> None]}
               ELSE {[inventory |-> inventoryAdd(inv, id, 1),
                      stockpile |-> stockRemove(stock, id, 1).stock,
                      collected |-> Some(id)] : id \in picked}
           : tag \in Range(flat(tags, 1))}

(* Number(emphasis.toFixed(3)) for an emphasis between 0 and 1 *)
fixed3(v) == Q(round1000(v), 1000)

(* chooseWeights: nexts[i] is what this.random.next() delivers to slot i *)
chooseWeights(count, requiredCount, nexts) ==
    [i \in 1..count |->
        fixed3(QAdd(IF i <= requiredCount THEN Half ELSE <<1, 10>>,
                    QMul(<<2, 5>>, nexts[i])))]

(* The loop taking every unit from the stockpile, whatever the source *)
RECURSIVE takeSelections_fromStockpile(_, _, _, _)
takeSelections_fromStockpile(inv, stock, selections, i) ==
    IF i > Len(selections) THEN [inventory |-> inv, stockpile |-> stock]
    ELSE takeSelections_fromStockpile(inv,
                                      stockRemove(stock, selections[i].definition.id, 1).stock,
                                      selections, i + 1)

(* The loop of actionNPCWork that takes one unit per selection *)
RECURSIVE takeSelections(_, _, _, _)
takeSelections(inv, stock, selections, i) ==
    IF i > Len(selections) THEN [inventory |-> inv, stockpile |-> stock]
    ELSE IF selections[i].source = "inventory"
    THEN takeSelections(inventoryRemove(inv, selections[i].definition.id, 1).inventory, stock,
                        selections, i + 1)
    ELSE takeSelections(inv, stockRemove(stock, selections[i].definition.id, 1).stock,
                        selections, i + 1)

(* The label actionNPCWork hands to craftOnce *)
workLabel(profile) ==
    IF profile.process = "forge" THEN "Forge product"
    ELSE IF profile.process = "refine" THEN "Refined material"
    ELSE profile.intent \o " " \o profile.process

(* scoreResult for the intents that are not ingested: weapon and tool, and *)
(* the remaining ones.                                                     *)
scoreResult(intent, craftedItem) ==
    LET traits == itemTraits(craftedItem)
        slagPenalty == QAdd(mixGet(craftedItem.mix, "SLAG"),
                            mixGet(craftedItem.mix, "MINERAL_DUST"))
        stability == QSub(One, traits.reactivity)
    IN  CASE intent \in {"weapon", "tool"} ->
                QSub(QAdd(QMul(<<6, 5>>, traits.metalness), QMul(<<4, 5>>, stability)),
                     QMul(Half, slagPenalty))
          [] intent \notin {"weapon", "tool", "food", "drink", "medicine"} ->
                QSub(QAdd(traits.mineralness, QMul(Half, stability)),
                     QMul(<<2, 5>>, slagPenalty))

InitialNeed == 50

(* ensureNeeds *)
ensureNeeds(nds) ==
    IF nds = None
    THEN Some([hunger |-> InitialNeed, social |-> InitialNeed, fun |-> InitialNeed])
    ELSE nds

clampNeed(value) == IF value < 0 THEN 0 ELSE IF value > 100 THEN 100 ELSE value

(* modifyNeed *)
modifyNeed(nds, needType, delta) ==
    Some([ensureNeeds(nds)[1] EXCEPT ![needType] = clampNeed(@ + delta)])

-----------------------------------------------------------------------------
(* actionNPCWork on a village of one miner, whose mine holds ore, stone    *)
(* and coal                                                                *)

WorkerJob == "Minerador"

(* What this.random.next() delivers to one call: to chooseWeights slot by  *)
(* slot, to craftOnce for the variation, and to the giveToNpc draw.        *)
WorkDraws ==
    {[weights |-> <<Quarter, Quarter, Quarter>>, variation |-> Half, give |-> Quarter],
     [weights |-> <<<<3, 4>>, Quarter, Quarter>>, variation |-> Quarter, give |-> <<3, 4>>]}

WorkHoldings ==
    {[inventory |-> None,
      stockpile |-> ("ore-iron" :> 1) @@ ("raw-stone" :> 1) @@ ("raw-coal" :> 3)],
     [inventory |-> Some("raw-coal" :> 1),
      stockpile |-> ("ore-iron" :> 2) @@ ("raw-coal" :> 1)]}

WorkInit ==
    /\ items = createSeedItemRegistry.items
    /\ counter = createSeedItemRegistry.counter
    /\ \E h \in WorkHoldings :
        /\ inventory = h.inventory
        /\ stockpile = h.stockpile
    /\ MemoryIdle
    /\ WorkIdle
    /\ EngineIdle
    /\ CraftIdle
    /\ AnalyzerIdle
    /\ StoreCallIdle

WorkFrame ==
    /\ UNCHANGED <<memoryCall, remembered>>
    /\ UNCHANGED engineVars
    /\ UNCHANGED craftVars
    /\ UNCHANGED analyzerVars
    /\ UNCHANGED storeCallVars

Held == [learnedRecipes |-> learnedRecipes, inventory |-> inventory, stockpile |-> stockpile]

(* The npc is away from the poi its job works at: it is sent there when a  *)
(* path exists and it has no target yet, and the call returns.             *)
WorkTravel(pathFound) ==
    /\ targetPos' = IF targetPos = None /\ pathFound THEN requiredPOI(WorkerJob) ELSE targetPos
    /\ work' = [op |-> "actionNPCWork", path |-> "travel", before |-> Held]
    /\ UNCHANGED <<learnedRecipes, inventory, stockpile, needs>>
    /\ UNCHANGED registryVars

(* No inputs, or fewer than two: the npc collects from the stockpile and   *)
(* the call returns.                                                       *)
WorkCollect(catalog, profile, recalled, afterRecall) ==
    \E c \in collectFromStockpile(catalog, afterRecall.inventory, profile.requiredTags,
                                  afterRecall.stockpile) :
        /\ inventory' = c.inventory
        /\ stockpile' = c.stockpile
        /\ learnedRecipes' = afterRecall.learnedRecipes
        /\ work' = [op |-> "actionNPCWork", path |-> "collect", before |-> Held,
                    recalled |-> recalled, afterRecall |-> afterRecall]
        /\ UNCHANGED <<targetPos, needs>>
        /\ UNCHANGED registryVars

(* The inputs are taken, crafted, the product stored or handed over,       *)
(* scored and, above 0.2, remembered; work costs hunger and fun.           *)
WorkCraft(profile, recalled, afterRecall, selections, weights, draws) ==
    LET inputs == [i \in DOMAIN selections |-> selections[i].definition]
        taken == takeSelections(afterRecall.inventory, afterRecall.stockpile, selections, 1)
    IN  \E crafted \in {craftOnce([choice |-> TRUE, next |-> draws.variation], Zero, Registry,
                                  flattenReactions(REACTIONS_LIBRARY), inputs,
                                  profile.process, workLabel(profile), weights)} :
            LET stocked == stockAdd(taken.stockpile, crafted.id, 1)
                giveToNpc == QGt(draws.give, <<7, 10>>)
                craftedDef == crafted.registry.items[crafted.id]
                score == scoreResult(profile.intent, craftedDef)
                remembers == QGt(score, <<1, 5>>)
            IN  /\ items' = crafted.registry.items
                /\ counter' = crafted.registry.counter
                /\ stockpile' = IF giveToNpc THEN stockRemove(stocked, crafted.id, 1).stock
                                ELSE stocked
                /\ inventory' = IF giveToNpc THEN inventoryAdd(taken.inventory, crafted.id, 1)
                                ELSE taken.inventory
                /\ learnedRecipes' =
                       IF remembers
                       THEN rememberRecipe(afterRecall.learnedRecipes, profile.intent,
                                           profile.process, inputs, weights, score)
                       ELSE afterRecall.learnedRecipes
                /\ needs' = modifyNeed(modifyNeed(needs, "hunger", -5), "fun", -2)
                /\ work' = [op |-> "actionNPCWork", path |-> "craft", before |-> Held,
                            recalled |-> recalled, afterRecall |-> afterRecall,
                            intent |-> profile.intent, process |-> profile.process,
                            selections |-> selections, inputs |-> inputs,
                            weights |-> weights, gave |-> giveToNpc,
                            craftedId |-> crafted.id, score |-> score,
                            remembered |-> remembers]
                /\ UNCHANGED targetPos

ActionNPCWork ==
    /\ nWorks < MaxWorks
    /\ nWorks' = nWorks + 1
    /\ WorkFrame
    /\ UNCHANGED npcs
    /\ \E atPoi \in BOOLEAN, pathFound \in BOOLEAN, draws \in WorkDraws :
        \E catalog \in {catalogOf(items)} :
            LET found == getCraftProfileForJob(WorkerJob, draws.variation, draws.give)
                scarcity(tag) == computeLocalScarcity(stockpile, catalog, tag)
                profile == adjustProfile(found[1], scarcity("food"), scarcity("drink"),
                                         scarcity("tool"), scarcity("material"))
            IN  /\ found # None
                /\ IF requiredPOI(WorkerJob) # None /\ ~atPoi
                   THEN WorkTravel(pathFound)
                   ELSE \E r \in {pickLearnedRecipe(items, learnedRecipes, inventory,
                                                    profile.intent, profile.process,
                                                    stockpile)} :
                        \E learned \in r.returns :
                            LET afterRecall == [learnedRecipes |-> r.learnedRecipes,
                                                inventory |-> r.inventory,
                                                stockpile |-> r.stockpile]
                                acquired ==
                                    IF learned # None THEN {Some(learned[1].inputs)}
                                    ELSE acquireInputs(catalog, afterRecall.inventory,
                                                       profile.requiredTags,
                                                       profile.optionalTags,
                                                       afterRecall.stockpile)
                            IN  \E selections \in acquired :
                                    IF selections = None \/ Len(selections[1]) < 2
                                    THEN WorkCollect(catalog, profile, learned # None,
                                                     afterRecall)
                                    ELSE WorkCraft(profile, learned # None, afterRecall,
                                                   selections[1],
                                                   IF learned # None THEN learned[1].weights
                                                   ELSE Some(chooseWeights(
                                                            Len(selections[1]),
                                                            Len(profile.requiredTags),
                                                            draws.weights)),
                                                   draws)

WorkNext == ActionNPCWork

SpecWork == WorkInit /\ [][WorkNext]_vars

-----------------------------------------------------------------------------
(* Two miners at the mine.  Both work on the stockpile of the poi and on   *)
(* the one item registry; each has its own inventory, learned recipes and  *)
(* needs.  A call of actionNPCWork advances in the steps a host could      *)
(* interleave: the selection of the ingredients, their removal, the spawn  *)
(* of the product in the registry, the stock add, the remembering.         *)

NpcIds == {"npc-1", "npc-2"}

NewNpc ==
    [inventory |-> None, learnedRecipes |-> None, needs |-> None, at |-> "idle",
     profile |-> None, selections |-> <<>>, weights |-> None, draws |-> None,
     recalled |-> FALSE, removed |-> <<>>, craftedId |-> None]

(* What the steps read and write *)
World(its, cnt, stock, ns) == [items |-> its, counter |-> cnt, stockpile |-> stock, npcs |-> ns]

VillageStart ==
    World(createSeedItemRegistry.items, createSeedItemRegistry.counter,
          ("ore-iron" :> 1) @@ ("raw-coal" :> 1), [n \in NpcIds |-> NewNpc])

(* The profile of the call once the scarcities at the poi are looked at *)
workProfile(stock, catalog, draws) ==
    LET found == getCraftProfileForJob(WorkerJob, draws.variation, draws.give)
        scarcity(tag) == computeLocalScarcity(stock, catalog, tag)
    IN  adjustProfile(found[1], scarcity("food"), scarcity("drink"),
                      scarcity("tool"), scarcity("material"))

(* With no inputs, or fewer than two, the npc collects and the call is     *)
(* over; else the call holds its inputs and their weights.                 *)
afterSelect(w, n, catalog, profile, r, draws, learned, selections) ==
    IF selections = None \/ Len(selections[1]) < 2
    THEN {[w EXCEPT !.stockpile = c.stockpile,
                    !.npcs[n].inventory = c.inventory,
                    !.npcs[n].learnedRecipes = r.learnedRecipes,
                    !.npcs[n].at = "done"] :
             c \in collectFromStockpile(catalog, r.inventory, profile.requiredTags,
                                        r.stockpile)}
    ELSE {[w EXCEPT !.stockpile = r.stockpile,
                    !.npcs[n].inventory = r.inventory,
                    !.npcs[n].learnedRecipes = r.learnedRecipes,
                    !.npcs[n].at = "selected",
                    !.npcs[n].profile = Some(profile),
                    !.npcs[n].selections = selections[1],
                    !.npcs[n].recalled = (learned # None),
                    !.npcs[n].weights =
                        IF learned # None THEN learned[1].weights
                        ELSE Some(chooseWeights(Len(selections[1]),
                                                Len(profile.requiredTags), draws.weights)),
                    !.npcs[n].draws = Some(draws)]}

(* The head of actionNPCWork up to the inputs and their weights: every     *)
(* world the draws and random.choice may lead to.                          *)
selectStep(w, n) ==
    UNION {UNION {UNION {UNION {UNION {
        afterSelect(w, n, catalog, profile, r, draws, learned, selections) :
            selections \in IF learned # None THEN {Some(learned[1].inputs)}
                           ELSE acquireInputs(catalog, r.inventory, profile.requiredTags,
                                              profile.optionalTags, r.stockpile)} :
            learned \in r.returns} :
            r \in {pickLearnedRecipe(w.items, w.npcs[n].learnedRecipes, w.npcs[n].inventory,
                                     profile.intent, profile.process, w.stockpile)}} :
            profile \in {workProfile(w.stockpile, catalog, draws)}} :
            catalog \in {catalogOf(w.items)}, draws \in WorkDraws}

(* The removal loop, with what each inventoryRemove or stockRemove         *)
(* returned; actionNPCWork does not look at it.                            *)
RECURSIVE takeEach(_, _, _, _, _)
takeEach(inv, stock, selections, i, results) ==
    IF i > Len(selections) THEN [inventory |-> inv, stockpile |-> stock, removed |-> results]
    ELSE IF selections[i].source = "inventory"
    THEN LET r == inventoryRemove(inv, selections[i].definition.id, 1)
         IN  takeEach(r.inventory, stock, selections, i + 1, Append(results, r.ok))
    ELSE LET r == stockRemove(stock, selections[i].definition.id, 1)
         IN  takeEach(inv, r.stock, selections, i + 1, Append(results, r.ok))

removeStep(w, n) ==
    LET taken == takeEach(w.npcs[n].inventory, w.stockpile, w.npcs[n].selections, 1, <<>>)
    IN  [w EXCEPT !.stockpile = taken.stockpile,
                  !.npcs[n].inventory = taken.inventory,
                  !.npcs[n].removed = taken.removed,
                  !.npcs[n].at = "removed"]

(* craftOnce on the definitions selected, spawning the product *)
spawnStep(w, n) ==
    LET npc == w.npcs[n]
        profile == npc.profile[1]
        inputs == [i \in DOMAIN npc.selections |-> npc.selections[i].definition]
        crafted == craftOnce([choice |-> TRUE, next |-> npc.draws[1].variation], Zero,
                             [items |-> w.items, counter |-> w.counter],
                             flattenReactions(REACTIONS_LIBRARY), inputs,
                             profile.process, workLabel(profile), npc.weights)
    IN  [w EXCEPT !.items = crafted.registry.items,
                  !.counter = crafted.registry.counter,
                  !.npcs[n].craftedId = Some(crafted.id),
                  !.npcs[n].at = "spawned"]

(* stockAdd of the product, and its hand-over on a draw above 0.7 *)
stockStep(w, n) ==
    LET npc == w.npcs[n]
        stocked == stockAdd(w.stockpile, npc.craftedId[1], 1)
        giveToNpc == QGt(npc.draws[1].give, <<7, 10>>)
    IN  [w EXCEPT !.stockpile = IF giveToNpc THEN stockRemove(stocked, npc.craftedId[1], 1).stock
                                ELSE stocked,
                  !.npcs[n].inventory = IF giveToNpc
                                        THEN inventoryAdd(npc.inventory, npc.craftedId[1], 1)
                                        ELSE npc.inventory,
                  !.npcs[n].at = "stocked"]

(* The score, rememberRecipe above 0.2, and the cost of the work *)
rememberStep(w, n) ==
    LET npc == w.npcs[n]
        profile == npc.profile[1]
        inputs == [i \in DOMAIN npc.selections |-> npc.selections[i].definition]
        score == scoreResult(profile.intent, w.items[npc.craftedId[1]])
    IN  [w EXCEPT !.npcs[n].learnedRecipes =
                      IF QGt(score, <<1, 5>>)
                      THEN rememberRecipe(npc.learnedRecipes, profile.intent, profile.process,
                                          inputs, npc.weights, score)
                      ELSE npc.learnedRecipes,
                  !.npcs[n].needs = modifyNeed(modifyNeed(npc.needs, "hunger", -5), "fun", -2),
                  !.npcs[n].at = "done"]

VillageInit ==
    /\ items = VillageStart.items
    /\ counter = VillageStart.counter
    /\ stockpile = VillageStart.stockpile
    /\ npcs = VillageStart.npcs
    /\ inventory = None
    /\ MemoryIdle
    /\ targetPos = None
    /\ needs = None
    /\ work = NoWork
    /\ nWorks = 0
    /\ EngineIdle
    /\ CraftIdle
    /\ AnalyzerIdle
    /\ StoreCallIdle

Village == World(items, counter, stockpile, npcs)

VillageBecomes(w) ==
    /\ items' = w.items
    /\ counter' = w.counter
    /\ stockpile' = w.stockpile
    /\ npcs' = w.npcs
    /\ UNCHANGED <<inventory, targetPos, needs, work, nWorks>>
    /\ UNCHANGED memoryVars
    /\ UNCHANGED engineVars
    /\ UNCHANGED craftVars
    /\ UNCHANGED analyzerVars
    /\ UNCHANGED storeCallVars

NpcSelects ==
    \E n \in NpcIds :
        /\ npcs[n].at = "idle"
        /\ \E w \in selectStep(Village, n) : VillageBecomes(w)

NpcRemoves ==
    \E n \in NpcIds :
        /\ npcs[n].at = "selected"
        /\ VillageBecomes(removeStep(Village, n))

NpcSpawns ==
    \E n \in NpcIds :
        /\ npcs[n].at = "removed"
        /\ VillageBecomes(spawnStep(Village, n))

NpcStocks ==
    \E n \in NpcIds :
        /\ npcs[n].at = "spawned"
        /\ VillageBecomes(stockStep(Village, n))

NpcRemembers ==
    \E n \in NpcIds :
        /\ npcs[n].at = "stocked"
        /\ VillageBecomes(rememberStep(Village, n))

VillageNext == NpcSelects \/ NpcRemoves \/ NpcSpawns \/ NpcStocks \/ NpcRemembers

SpecVillage == VillageInit /\ [][VillageNext]_vars

(* One call of actionNPCWork for npc n run from w without interruption:    *)
(* the worlds it may end in.                                               *)
workOf(w, n) ==
    {IF selected.npcs[n].at = "done" THEN selected
     ELSE rememberStep(stockStep(spawnStep(removeStep(selected, n), n), n), n) :
        selected \in selectStep(w, n)}

(* The two calls one after the other, in either order *)
oneAfterTheOther(first, second) ==
    UNION {workOf(w, second) : w \in workOf(VillageStart, first)}

(* What the calls leave behind them: the registry, the stockpile and each  *)
(* npc's inventory, learned recipes and needs.                             *)
Outcome(w) ==
    [items |-> w.items, counter |-> w.counter, stockpile |-> w.stockpile,
     npcs |-> [n \in NpcIds |-> [inventory |-> w.npcs[n].inventory,
                                 learnedRecipes |-> w.npcs[n].learnedRecipes,
                                 needs |-> w.npcs[n].needs]]]

SerialOutcomes ==
    {Outcome(w) : w \in oneAfterTheOther("npc-1", "npc-2") \cup
                        oneAfterTheOther("npc-2", "npc-1")}

====
